---- MODULE Spec2Model ----
(***************************************************************************)
(* The batched operation engine of AsyncPostgresStore                      *)
(* (libs/checkpoint-postgres/langgraph/store/postgres/aio.py) and the      *)
(* BaseStore facade and namespace validation                               *)
(* (libs/checkpoint/langgraph/store/base/__init__.py).                     *)
(*                                                                         *)
(* Text is a sequence of one-character strings, so that joining a          *)
(* namespace with "." and splitting it back are computed, not assumed.     *)
(* Indices of operations and results are 1-based here (0-based in Python). *)
(***************************************************************************)
EXTENDS Naturals, Integers, Sequences, FiniteSets, TLC

\* ------------------------------------------------------------------ bounds
\* number of entries of the migration list
MaxMigrations == 3
\* longest operation list handed to one batch / abatch call
MaxOps == 3
\* number of facade calls a task issues one after the other
MaxCalls == 3
\* largest value of the database clock (CURRENT_TIMESTAMP)
MaxClock == 1
\* largest max_size of the connection pool
MaxPool == 2

\* ------------------------------------------------------- program constants
\* SearchOp.limit default
SearchLimit == 10
\* ListNamespacesOp.limit default
ListLimit == 100

\* --------------------------------------------------------- text and labels
Dot == "."
\* the order of characters ('.' sorts before the letters, as in ASCII)
Alphabet == <<".", "a", "b", "g", "h", "k", "l", "n", "p", "r">>
CharOrd(c) == CHOOSE i \in 1..Len(Alphabet) : Alphabet[i] = c

\* a namespace label: a Python str with its characters, or some non-str object
Str(chars) == [isstr |-> TRUE, chars |-> chars]
NonStr == [isstr |-> FALSE, chars |-> <<>>]
La == Str(<<"a">>)
Lb == Str(<<"b">>)
Lempty == Str(<<>>)
Ldotted == Str(<<"a", ".", "b">>)
Llanggraph == Str(<<"l", "a", "n", "g", "g", "r", "a", "p", "h">>)

None == "None"

Min(a, b) == IF a <= b THEN a ELSE b

RECURSIVE TextLess(_, _)
\* lexicographic order on text
TextLess(a, b) ==
  IF b = <<>> THEN FALSE
  ELSE IF a = <<>> THEN TRUE
  ELSE IF a[1] # b[1] THEN CharOrd(a[1]) < CharOrd(b[1])
  ELSE TextLess(Tail(a), Tail(b))

IsTextPrefix(p, t) == Len(p) <= Len(t) /\ SubSeq(t, 1, Len(p)) = p

\* ------------------------------------------------------ namespace handling
HasDot(label) == \E i \in 1..Len(label.chars) : label.chars[i] = Dot

\* _validate_namespace rejecting the reserved label at any position
_validate_namespace_any_position(namespace) ==
  IF namespace = <<>> THEN "InvalidNamespaceError"
  ELSE IF \E i \in 1..Len(namespace) :
            \/ ~namespace[i].isstr
            \/ HasDot(namespace[i])
            \/ namespace[i].chars = <<>>
            \/ namespace[i] = Llanggraph
       THEN "InvalidNamespaceError"
  ELSE "ok"

\* "ok", or the name of the error raised
_validate_namespace(namespace) ==
  IF namespace = <<>> THEN "InvalidNamespaceError"
  ELSE IF \E i \in 1..Len(namespace) :
            \/ ~namespace[i].isstr
            \/ HasDot(namespace[i])
            \/ namespace[i].chars = <<>>
       THEN "InvalidNamespaceError"
  ELSE IF namespace[1] = Llanggraph THEN "InvalidNamespaceError"
  ELSE "ok"

RECURSIVE _namespace_to_text(_)
\* ".".join(namespace)
_namespace_to_text(namespace) ==
  IF namespace = <<>> THEN <<>>
  ELSE IF Len(namespace) = 1 THEN namespace[1].chars
  ELSE namespace[1].chars \o <<Dot>> \o _namespace_to_text(Tail(namespace))

FirstDot(text) ==
  IF \E i \in 1..Len(text) : text[i] = Dot
  THEN CHOOSE i \in 1..Len(text) :
         text[i] = Dot /\ \A j \in 1..(i - 1) : text[j] # Dot
  ELSE 0

RECURSIVE _decode_ns_bytes(_)
\* tuple(text.split("."))
_decode_ns_bytes(text) ==
  IF FirstDot(text) = 0 THEN <<Str(text)>>
  ELSE <<Str(SubSeq(text, 1, FirstDot(text) - 1))>>
       \o _decode_ns_bytes(SubSeq(text, FirstDot(text) + 1, Len(text)))

\* --------------------------------------------------------- operation model
GetOp(namespace, key) == [op |-> "GetOp", namespace |-> namespace, key |-> key]

PutOp(namespace, key, value, index) ==
  [op |-> "PutOp", namespace |-> namespace, key |-> key, value |-> value,
   index |-> index]

SearchOp(namespace_prefix, filter, limit, offset, query) ==
  [op |-> "SearchOp", namespace_prefix |-> namespace_prefix, filter |-> filter,
   limit |-> limit, offset |-> offset, query |-> query]

ListNamespacesOp(match_conditions, max_depth, limit, offset) ==
  [op |-> "ListNamespacesOp", match_conditions |-> match_conditions,
   max_depth |-> max_depth, limit |-> limit, offset |-> offset]

\* a timestamp argument: a datetime (a clock value), or a string
Datetime(n) == [type |-> "datetime", v |-> n]
IsoStr(chars) == [type |-> "str", v |-> chars]

\* datetime.isoformat(): the digits of the clock value, most significant first
isoformat(n) == <<n \div 10, n % 10>>
\* datetime.fromisoformat(): the clock value the digits spell
fromisoformat(chars) == chars[1] * 10 + chars[2]

\* Item.__init__ with datetime arguments (rows read from the database)
Item(value, key, namespace, created_at, updated_at) ==
  [value |-> value, key |-> key, namespace |-> namespace,
   created_at |-> created_at, updated_at |-> updated_at]

\* the Result variants
ResNone == [tag |-> "None"]
ResItem(item) == [tag |-> "Item", item |-> item]
ResItems(items) == [tag |-> "Items", items |-> items]
ResNamespaces(list) == [tag |-> "Namespaces", namespaces |-> list]

\* ------------------------------------------------------------------ state
VARIABLES
  self,           \* the store instance: conn, pool_size, pipe, supports_pipeline,
                  \* index_config, embeddings
  store,          \* table store: rows [prefix, key, value, created_at, updated_at]
  store_vectors,  \* table store_vectors: rows [prefix, key, field_name, embedding]
  now,            \* the database clock
  pool_free,      \* connections of the pool that are not checked out
  lock,           \* self.lock: None or the task that holds it
  pc,             \* per task: where it is in its call
  call,           \* per task: the facade call it issued last, with its arguments
  ops,            \* per task: the operation list of the running batch
  results,        \* per task: the results list abatch fills
  ip,             \* per task: number of steps of the batch already dispatched
  held,           \* per task: pool connections it has checked out
  txn,            \* per task: the tables when its transaction began
  outcome,        \* per task: how its last call ended
  returned,       \* per task: what its last call returned
  pre,            \* per task: the store table when its last call was made
  log,            \* per task: the steps its batch has dispatched, in order
  left,           \* per task: the calls it may still issue
  issued,         \* number of abatch invocations so far
  lastput,        \* the (namespace, key, value) of the last completed put per key
  onlyputs,       \* every call so far was a put or a get that did not fail
  deleted,        \* the (namespace, key) of completed deletes with no put issued since
  deleted_c,      \* the same, with no put completed since
  store_migrations, \* table store_migrations: whether it exists, and its rows v
  applied,        \* the migration indices whose statement the database ran, in order
  mig,            \* per task: the locals of its setup run
  unsynced,       \* per task: statements it sent in pipeline mode and not yet synced
  ctor,           \* the construction under way: arguments, progress and outcome
  blocking,       \* per task: the blocking batch() call waiting on its abatch
  built           \* an Item, its dict() and the Item made of that dict

vars == <<self, store, store_vectors, now, pool_free, lock, pc, call, ops,
          results, ip, held, txn, outcome, returned, pre, log, left, issued,
          lastput, onlyputs, deleted, deleted_c, store_migrations, applied, mig,
          unsynced, ctor, blocking, built>>

Tasks == {"t1", "t2"}
Keys == {"k1", "k2"}
\* ascending order of the keys
KeyOrder == <<"k1", "k2">>
Values == {"v1", "v2"}

KeyRank(k) == CHOOSE i \in 1..Len(KeyOrder) : KeyOrder[i] = k

\* PutOp.index: the store default, False, or a list of paths
IndexDefault == [mode |-> "default", paths |-> <<>>]
IndexFalse == [mode |-> "False", paths |-> <<>>]

\* ------------------------------------------------------------ sequences
RECURSIVE DistinctInOrder(_)
\* the distinct elements of seq in order of first occurrence (dict key order)
DistinctInOrder(seq) ==
  IF seq = <<>> THEN <<>>
  ELSE <<seq[1]>> \o DistinctInOrder(SelectSeq(Tail(seq), LAMBDA x : x # seq[1]))

RECURSIVE Concat(_)
Concat(seqs) == IF seqs = <<>> THEN <<>> ELSE seqs[1] \o Concat(Tail(seqs))

Range(seq) == {seq[i] : i \in 1..Len(seq)}

SetMax(S) == CHOOSE m \in S : \A o \in S : o <= m

\* ------------------------------------------------------------- grouping
RECURSIVE IndexedOfKind(_, _, _)
IndexedOfKind(opseq, kind, i) ==
  IF i > Len(opseq) THEN <<>>
  ELSE (IF opseq[i].op = kind THEN << <<i, opseq[i]>> >> ELSE <<>>)
       \o IndexedOfKind(opseq, kind, i + 1)

\* grouped_ops (a dict with a key for every kind that occurs) and num_ops
_group_ops(opseq) ==
  [grouped |-> [k \in {opseq[i].op : i \in 1..Len(opseq)} |->
                  IndexedOfKind(opseq, k, 1)],
   num_ops |-> Len(opseq)]

\* ---------------------------------------------------------------- planner
\* index_config None, or the configuration _ensure_index_config returns
NoIndexConfig == [tag |-> "None"]
IndexConfig == [tag |-> "IndexConfig", fields |-> <<"$">>]
\* no embedding request
NoRequest == [stmt |-> "None"]

\* one SELECT per namespace, with the (idx, key) pairs it answers
_get_batch_GET_ops_queries(get_ops) ==
  LET nss == DistinctInOrder([i \in 1..Len(get_ops) |-> get_ops[i][2].namespace])
      mine(n) == SelectSeq(get_ops, LAMBDA e : e[2].namespace = nss[n])
  IN  [n \in 1..Len(nss) |->
        [stmt |-> "SELECT",
         prefix |-> _namespace_to_text(nss[n]),
         keys |-> {mine(n)[j][2].key : j \in 1..Len(mine(n))},
         namespace |-> nss[n],
         items |-> [j \in 1..Len(mine(n)) |-> <<mine(n)[j][1], mine(n)[j][2].key>>]]]

\* the put ops with those on the same (namespace, key) collapsed to the last
DedupPuts(put_ops) ==
  LET ids == DistinctInOrder(
               [i \in 1..Len(put_ops) |-> <<put_ops[i][2].namespace, put_ops[i][2].key>>])
      last(n) == SetMax({i \in 1..Len(put_ops) :
                    <<put_ops[i][2].namespace, put_ops[i][2].key>> = ids[n]})
  IN  [n \in 1..Len(ids) |-> put_ops[last(n)][2]]

\* get_text_at_path(value, path): the texts of value at path; every value of
\* the model is a flat document with one text at the root path
get_text_at_path(value, path) == << [of |-> value, at |-> path] >>

\* one DELETE per namespace dnss[n] of the deleting ops
DeleteQueries(deletes, dnss) ==
  [n \in 1..Len(dnss) |->
     [stmt |-> "DELETE",
      prefix |-> _namespace_to_text(dnss[n]),
      keys |-> {deletes[j].key : j \in {j \in 1..Len(deletes) :
                                          deletes[j].namespace = dnss[n]}}]]

\* the one INSERT .. ON CONFLICT statement for the inserting ops
InsertQuery(inserts) ==
  [stmt |-> "INSERT",
   rows |-> [i \in 1..Len(inserts) |->
               [prefix |-> _namespace_to_text(inserts[i].namespace),
                key |-> inserts[i].key,
                value |-> inserts[i].value]]]

\* the paths to embed for op o: its own index, or the configured fields
IndexPaths(o) ==
  IF o.index.mode = "default" THEN self.index_config.fields ELSE o.index.paths

\* the texts of op o at the given paths, each with the row it belongs to
TextsAt(o, paths) ==
  IF self.index_config.tag = "None" \/ o.index.mode = "False" THEN <<>>
  ELSE Concat([p \in 1..Len(paths) |->
         [x \in 1..Len(get_text_at_path(o.value, paths[p])) |->
            [prefix |-> _namespace_to_text(o.namespace),
             key |-> o.key,
             pathname |-> paths[p],
             text |-> get_text_at_path(o.value, paths[p])[x]]]])

\* the embedding request for the texts to embed (None if there are none)
EmbeddingRequest(reqs) ==
  IF reqs = <<>> THEN NoRequest ELSE [stmt |-> "UPSERT_VECTORS", params |-> reqs]

\* the queries for the inserting and the deleting ops: deletes first
PutQueries(inserts, deletes) ==
  [queries |->
     DeleteQueries(deletes,
                   DistinctInOrder([i \in 1..Len(deletes) |-> deletes[i].namespace]))
     \o (IF inserts = <<>> THEN <<>> ELSE <<InsertQuery(inserts)>>),
   embedding_request |->
     EmbeddingRequest(Concat([i \in 1..Len(inserts) |->
                                TextsAt(inserts[i], IndexPaths(inserts[i]))]))]

SplitPuts(dedupped) ==
  PutQueries(SelectSeq(dedupped, LAMBDA o : o.value # None),
             SelectSeq(dedupped, LAMBDA o : o.value = None))

\* (queries, embedding_request): the DELETE statements (one per namespace),
\* the INSERT .. ON CONFLICT statement, and the rows to embed (None if none)
_prepare_batch_PUT_queries(put_ops) == SplitPuts(DedupPuts(put_ops))

\* a search op asks for the hybrid statement: it has a query and indexing is
\* configured
WantsVector(o) == o.query # None /\ self.index_config.tag # "None"

\* the second component of what _prepare_batch_search_queries returns: one
\* (position in the group, query text) pair per op that wants a vector
SearchEmbeddingRequests(search_ops) ==
  SelectSeq([i \in 1..Len(search_ops) |->
               [idx |-> i, query |-> search_ops[i][2].query,
                wants |-> WantsVector(search_ops[i][2])]],
            LAMBDA e : e.wants)

\* one statement per search op: a filtered scan, or with a query the hybrid
\* statement, whose first parameter is the place of the query vector
_prepare_batch_search_queries(search_ops) ==
  [i \in 1..Len(search_ops) |->
     [stmt |-> "SEARCH",
      prefix |-> _namespace_to_text(search_ops[i][2].namespace_prefix),
      limit |-> search_ops[i][2].limit,
      offset |-> search_ops[i][2].offset,
      hybrid |-> WantsVector(search_ops[i][2]),
      vector |-> None]]

\* one statement per list op
_get_batch_list_namespaces_queries(list_ops) ==
  [i \in 1..Len(list_ops) |->
     [stmt |-> "LIST", limit |-> list_ops[i][2].limit,
      offset |-> list_ops[i][2].offset]]

\* the embedder: one vector per text, in order
aembed_documents(texts) == [i \in 1..Len(texts) |-> [vec |-> texts[i]]]

\* ------------------------------------------------------ database statements
\* SELECT key, value, created_at, updated_at FROM store
\*   WHERE prefix = .. AND key IN (..)
ExecSelect(q) == {r \in store : r.prefix = q.prefix /\ r.key \in q.keys}

\* DELETE FROM store WHERE prefix = .. AND key IN (..)
ExecDelete(rows, q) == {r \in rows : ~(r.prefix = q.prefix /\ r.key \in q.keys)}

\* store_vectors references store ON DELETE CASCADE
Cascade(vrows, rows) ==
  {v \in vrows : \E r \in rows : r.prefix = v.prefix /\ r.key = v.key}

\* INSERT INTO store .. VALUES .. ON CONFLICT (prefix, key) DO UPDATE
\*   SET value = EXCLUDED.value, updated_at = CURRENT_TIMESTAMP
ExecInsert(rows, q, ts) ==
  LET hit(r) == \E i \in 1..Len(q.rows) :
                  q.rows[i].prefix = r.prefix /\ q.rows[i].key = r.key
      old(n) == {r \in rows : r.prefix = n.prefix /\ r.key = n.key}
      put(n) == IF old(n) = {}
                THEN [prefix |-> n.prefix, key |-> n.key, value |-> n.value,
                      created_at |-> ts, updated_at |-> ts]
                ELSE [prefix |-> n.prefix, key |-> n.key, value |-> n.value,
                      created_at |-> (CHOOSE r \in old(n) : TRUE).created_at,
                      updated_at |-> ts]
  IN  {r \in rows : ~hit(r)} \cup {put(q.rows[i]) : i \in 1..Len(q.rows)}

\* INSERT INTO store_vectors .. ON CONFLICT (prefix, key, field_name) DO UPDATE
ExecUpsertVectors(vrows, q) ==
  LET hit(v) == \E i \in 1..Len(q.rows) :
                  /\ q.rows[i].prefix = v.prefix
                  /\ q.rows[i].key = v.key
                  /\ q.rows[i].field_name = v.field_name
  IN  {v \in vrows : ~hit(v)} \cup Range(q.rows)

\* ORDER BY updated_at DESC, key ASC (then by prefix, to fix the order of ties)
RowBefore(a, b) ==
  \/ a.updated_at > b.updated_at
  \/ a.updated_at = b.updated_at /\ KeyRank(a.key) < KeyRank(b.key)
  \/ a.updated_at = b.updated_at /\ a.key = b.key /\ TextLess(a.prefix, b.prefix)

RECURSIVE SortRows(_)
SortRows(S) ==
  IF S = {} THEN <<>>
  ELSE LET m == CHOOSE r \in S : \A o \in S \ {r} : RowBefore(r, o)
       IN  <<m>> \o SortRows(S \ {m})

Page(seq, offset, limit) == SubSeq(seq, offset + 1, Min(Len(seq), offset + limit))

\* SELECT .. FROM store WHERE prefix LIKE '<prefix>%' ORDER BY .. LIMIT .. OFFSET ..
ExecSearch(q) ==
  Page(SortRows({r \in store : IsTextPrefix(q.prefix, r.prefix)}), q.offset, q.limit)

RECURSIVE SortTexts(_)
SortTexts(S) ==
  IF S = {} THEN <<>>
  ELSE LET m == CHOOSE x \in S : \A o \in S \ {x} : TextLess(x, o)
       IN  <<m>> \o SortTexts(S \ {m})

\* SELECT DISTINCT prefix FROM store ORDER BY prefix LIMIT .. OFFSET ..
ExecList(q) == Page(SortTexts({r.prefix : r \in store}), q.offset, q.limit)

\* ------------------------------------------------------------ the handlers
_row_to_item(namespace, row) ==
  Item(row.value, row.key, namespace, row.created_at, row.updated_at)

\* SearchItem: an Item and a score (None for a scan without query)
_row_to_search_item(namespace, row) ==
  [value |-> row.value, key |-> row.key, namespace |-> namespace,
   created_at |-> row.created_at, updated_at |-> row.updated_at, score |-> None]

StepOf(group, q, idx) == [group |-> group, stmt |-> q.stmt, q |-> q, idx |-> idx]

\* the statements _batch_get_ops dispatches
_batch_get_ops(get_ops) ==
  LET queries == _get_batch_GET_ops_queries(get_ops)
  IN  [n \in 1..Len(queries) |-> StepOf("GetOp", queries[n], 0)]

\* GetReplies with a key_to_row that never finds the key
GetReplies_miss(res, q, rows) ==
  [i \in 1..Len(res) |->
     IF \E j \in 1..Len(q.items) : q.items[j][1] = i THEN ResNone ELSE res[i]]

\* the results list after one SELECT of _batch_get_ops came back with rows
GetReplies(res, q, rows) ==
  [i \in 1..Len(res) |->
     IF \E j \in 1..Len(q.items) : q.items[j][1] = i
     THEN LET key == q.items[CHOOSE j \in 1..Len(q.items) : q.items[j][1] = i][2]
          IN  IF \E row \in rows : row.key = key
              THEN ResItem(_row_to_item(q.namespace,
                                        CHOOSE row \in rows : row.key = key))
              ELSE ResNone
     ELSE res[i]]

\* the embedder call of the search group: made when there are embedding
\* requests and an embedder
SearchEmbedSteps(requests) ==
  IF requests # <<>> /\ self.embeddings # None
  THEN <<[group |-> "SearchOp", stmt |-> "EMBED_QUERY", q |-> requests, idx |-> 0]>>
  ELSE <<>>

\* every request's statement gets the first vector
SpliceVectors_first(queries, requests, vectors) ==
  [n \in 1..Len(queries) |->
     IF \E i \in 1..Min(Len(requests), Len(vectors)) : requests[i].idx = n
     THEN [queries[n] EXCEPT !.vector = vectors[1]]
     ELSE queries[n]]

\* for (idx, _), vector in zip(embedding_requests, vectors):
\*     queries[idx][1][0] = vector
SpliceVectors(queries, requests, vectors) ==
  [n \in 1..Len(queries) |->
     IF \E i \in 1..Min(Len(requests), Len(vectors)) : requests[i].idx = n
     THEN [queries[n] EXCEPT
             !.vector = vectors[CHOOSE i \in 1..Min(Len(requests), Len(vectors)) :
                                  requests[i].idx = n]]
     ELSE queries[n]]

\* the texts of the embedding requests, in request order
RequestTexts(requests) == [i \in 1..Len(requests) |-> requests[i].query]

\* the search statements with the vectors the embedder call returned put in
\* their place (as prepared when the call is not made)
Spliced(queries, search_ops) ==
  IF SearchEmbeddingRequests(search_ops) # <<>> /\ self.embeddings # None
  THEN SpliceVectors(queries, SearchEmbeddingRequests(search_ops),
                     aembed_documents(RequestTexts(SearchEmbeddingRequests(search_ops))))
  ELSE queries

\* _batch_search_ops storing each reply at the position within the group
_batch_search_ops_group_idx(search_ops) ==
  LET queries == Spliced(_prepare_batch_search_queries(search_ops), search_ops)
  IN  SearchEmbedSteps(SearchEmbeddingRequests(search_ops))
      \o [n \in 1..Len(queries) |-> StepOf("SearchOp", queries[n], n)]

\* the statements _batch_search_ops dispatches, each with the idx it answers,
\* after the embedder call if one is made
_batch_search_ops(search_ops) ==
  LET queries == Spliced(_prepare_batch_search_queries(search_ops), search_ops)
  IN  SearchEmbedSteps(SearchEmbeddingRequests(search_ops))
      \o [n \in 1..Len(queries) |-> StepOf("SearchOp", queries[n], search_ops[n][1])]

SearchReply(rows) ==
  ResItems([i \in 1..Len(rows) |->
              _row_to_search_item(_decode_ns_bytes(rows[i].prefix), rows[i])])

\* the statements _batch_list_namespaces_ops dispatches
_batch_list_namespaces_ops(list_ops) ==
  LET queries == _get_batch_list_namespaces_queries(list_ops)
  IN  [n \in 1..Len(queries) |->
         StepOf("ListNamespacesOp", queries[n], list_ops[n][1])]

ListReply(rows) == ResNamespaces([i \in 1..Len(rows) |-> _decode_ns_bytes(rows[i])])

\* the vector upsert pairing the texts' rows with the vectors in reverse
UpsertVectors_reversed(params, vectors) ==
  [stmt |-> "UPSERT_VECTORS",
   rows |-> [i \in 1..Min(Len(params), Len(vectors)) |->
               [prefix |-> params[i].prefix,
                key |-> params[i].key,
                field_name |-> params[i].pathname,
                embedding |-> vectors[Min(Len(params), Len(vectors)) + 1 - i]]]]

\* the vector upsert: the i-th vector goes with the i-th text's row and path
UpsertVectors(params, vectors) ==
  [stmt |-> "UPSERT_VECTORS",
   rows |-> [i \in 1..Min(Len(params), Len(vectors)) |->
               [prefix |-> params[i].prefix,
                key |-> params[i].key,
                field_name |-> params[i].pathname,
                embedding |-> vectors[i]]]]

\* the embedding request and the queries _batch_put_ops has to execute: the
\* prepared ones, then the vector upsert built from the embedder's reply
PutPlan(p) ==
  [embedding_request |-> p.embedding_request,
   queries |->
     IF p.embedding_request.stmt = "None" THEN p.queries
     ELSE Append(p.queries,
                 UpsertVectors(p.embedding_request.params,
                    aembed_documents([i \in 1..Len(p.embedding_request.params) |->
                                        p.embedding_request.params[i].text])))]

\* the embedder call (when there is an embedding request), then one step per
\* query
PutSteps(p) ==
  (IF p.embedding_request.stmt = "None" THEN <<>>
   ELSE <<[group |-> "PutOp", stmt |-> "EMBED", q |-> p.embedding_request, idx |-> 0]>>)
  \o [n \in 1..Len(p.queries) |-> StepOf("PutOp", p.queries[n], 0)]

\* the item statements first, the embedder call just before the vector upsert
EmbedLate(p) ==
  IF p.embedding_request.stmt = "None" THEN PutSteps(p)
  ELSE [n \in 1..(Len(p.queries) - 1) |-> StepOf("PutOp", p.queries[n], 0)]
       \o <<[group |-> "PutOp", stmt |-> "EMBED", q |-> p.embedding_request, idx |-> 0],
            StepOf("PutOp", p.queries[Len(p.queries)], 0)>>

\* _batch_put_ops calling the embedder after the item statements
_batch_put_ops_embed_late(put_ops) ==
  EmbedLate(PutPlan(_prepare_batch_PUT_queries(put_ops)))

LastOnly(p) ==
  [p EXCEPT !.queries = IF p.queries = <<>> THEN <<>> ELSE <<p.queries[Len(p.queries)]>>]

\* _batch_put_ops executing only the last of its queries
_batch_put_ops_last_only(put_ops) ==
  PutSteps(LastOnly(PutPlan(_prepare_batch_PUT_queries(put_ops))))

OnlyWithRequest(p) == IF p.embedding_request.stmt = "None" THEN <<>> ELSE PutSteps(p)

\* _batch_put_ops with the execute loop inside "if embedding_request"
_batch_put_ops_in_if(put_ops) ==
  OnlyWithRequest(PutPlan(_prepare_batch_PUT_queries(put_ops)))

\* the steps of _batch_put_ops: the embedder call (when there is an embedding
\* request), then the item statements, then the vector upsert
_batch_put_ops(put_ops) == PutSteps(PutPlan(_prepare_batch_PUT_queries(put_ops)))

GroupSteps(grouped, kind) ==
  IF kind \notin DOMAIN grouped THEN <<>>
  ELSE CASE kind = "GetOp" -> _batch_get_ops(grouped[kind])
         [] kind = "SearchOp" -> _batch_search_ops(grouped[kind])
         [] kind = "ListNamespacesOp" -> _batch_list_namespaces_ops(grouped[kind])
         [] kind = "PutOp" -> _batch_put_ops(grouped[kind])

\* _execute_batch with the Put group handled first
_execute_batch_puts_first(grouped) ==
  GroupSteps(grouped, "PutOp") \o GroupSteps(grouped, "GetOp")
  \o GroupSteps(grouped, "SearchOp") \o GroupSteps(grouped, "ListNamespacesOp")

\* _execute_batch with the ListNamespaces group before the Search group
_execute_batch_list_first(grouped) ==
  GroupSteps(grouped, "GetOp") \o GroupSteps(grouped, "ListNamespacesOp")
  \o GroupSteps(grouped, "SearchOp") \o GroupSteps(grouped, "PutOp")

\* the steps of _execute_batch, in the order it dispatches them
_execute_batch(grouped) ==
  GroupSteps(grouped, "GetOp") \o GroupSteps(grouped, "SearchOp")
  \o GroupSteps(grouped, "ListNamespacesOp") \o GroupSteps(grouped, "PutOp")

Steps(t) == _execute_batch(_group_ops(ops[t]).grouped)

\* ------------------------------------------------------------------ inputs
\* namespaces handed to put
PutNamespaces ==
  {<<>>, <<La>>, <<Lempty>>, <<Ldotted>>, <<NonStr>>, <<Llanggraph>>,
   <<La, Llanggraph>>, <<La, Lempty>>}

\* the (namespace, key) addresses the operations of a batch name
Targets == {<<ns, k>> : ns \in {<<La>>}, k \in Keys} \cup {<<(<<Llanggraph>>), "k1">>}
\* the puts: every value and the deletion on one address, one value elsewhere
PutValues(target) == IF target = <<(<<La>>), "k1">> THEN Values \cup {None} ELSE {"v1"}

OpUniverse ==
  {GetOp(x[1], x[2]) : x \in Targets}
  \cup UNION {{PutOp(x[1], x[2], v, IndexDefault) : v \in PutValues(x)} : x \in Targets}
  \cup {SearchOp(<<La>>, None, SearchLimit, 0, None)}
  \cup {ListNamespacesOp(<<>>, None, ListLimit, 0)}

OpLists(n) == UNION {[1..m -> OpUniverse] : m \in 0..n}

\* the store instances __init__ can leave behind
Stores ==
  {[conn |-> "single", pool_size |-> 0, pipe |-> TRUE, supports_pipeline |-> TRUE,
    index_config |-> ic, embeddings |-> IF ic.tag = "None" THEN None ELSE "embedder"]
     : ic \in {NoIndexConfig, IndexConfig}}
  \cup {[conn |-> "single", pool_size |-> 0, pipe |-> FALSE, supports_pipeline |-> sp,
         index_config |-> ic,
         embeddings |-> IF ic.tag = "None" THEN None ELSE "embedder"]
          : sp \in BOOLEAN, ic \in {NoIndexConfig, IndexConfig}}
  \cup {[conn |-> "pool", pool_size |-> n, pipe |-> FALSE, supports_pipeline |-> sp,
         index_config |-> ic,
         embeddings |-> IF ic.tag = "None" THEN None ELSE "embedder"]
          : n \in 1..MaxPool, sp \in BOOLEAN, ic \in {NoIndexConfig, IndexConfig}}

NoCall == [api |-> "none"]
NoReturn == [tag |-> "Nothing"]
RetList(list) == [tag |-> "List", list |-> list]
NoTxn == [store |-> {}, store_vectors |-> {}]

\* -------------------------------------------------------------- migrations
\* MIGRATIONS: an ordered list of literal statements and of structured
\* entries whose condition looks at the store (here: index_config is set)
MIGRATIONS ==
  [i \in 1..MaxMigrations |->
     IF i % 2 = 0 THEN [kind |-> "Migration", condition |-> "index_config"]
     ELSE [kind |-> "str", condition |-> "none"]]

\* migration.condition(self), for a structured entry that has one
CondHolds(m) == m.condition = "none" \/ self.index_config.tag # "None"

RECURSIVE Ascending(_)
Ascending(S) ==
  IF S = {} THEN <<>>
  ELSE LET m == CHOOSE x \in S : \A o \in S : x <= o
       IN  <<m>> \o Ascending(S \ {m})

\* the version taken as the number of rows
ReadVersion_count(rows) == Cardinality(rows) - 1

\* SELECT v FROM store_migrations ORDER BY v DESC LIMIT 1: -1 for no row
ReadVersion(rows) == IF rows = {} THEN -1 ELSE SetMax(rows)

\* the loop starting at MIGRATIONS[version:]
FirstIndex_same(version) == IF version < 0 THEN 0 ELSE version

\* the index the loop over MIGRATIONS[version + 1:] starts at
FirstIndex(version) == version + 1

\* the first index from v on whose entry is not skipped (len(MIGRATIONS) if
\* there is none)
Runnable(v) ==
  LET S == {i \in v..(Len(MIGRATIONS) - 1) : CondHolds(MIGRATIONS[i + 1])}
  IN  IF S = {} THEN Len(MIGRATIONS) ELSE CHOOSE x \in S : \A o \in S : x <= o

NoTable == [exists |-> FALSE, rows |-> {}]
NoMig == [version |-> -1, v |-> 0, ran |-> <<>>, table0 |-> NoTable, after_ok |-> FALSE]
\* no Item has been built
NoBuilt == [phase |-> "none"]

\* no construction has been started
NoCtor ==
  [phase |-> "none", via |-> "none", n |-> 0, kw |-> {}, conn |-> "none",
   pipe |-> FALSE, given |-> [tag |-> "None"], args |-> <<>>, attrs |-> {},
   error |-> None]
\* no blocking call has been made
NoBlocking == [state |-> "none", caller |-> "none", ops |-> <<>>,
               result |-> [tag |-> "Nothing"], error |-> "none"]

\* the tables of a database on which setup has run to its end
InitSchema ==
  /\ store_migrations =
       [exists |-> TRUE,
        rows |-> {i \in 0..(Len(MIGRATIONS) - 1) : CondHolds(MIGRATIONS[i + 1])}]
  /\ applied = Ascending(store_migrations.rows)

\* ------------------------------------------------------------------- Init
\* what the store table may hold when the program starts
InitialStores ==
  {{},
   {[prefix |-> _namespace_to_text(<<La>>), key |-> "k1", value |-> "v1",
     created_at |-> 0, updated_at |-> 0]}}

InitState ==
  /\ store_vectors = {}
  /\ now = 0
  /\ pool_free = self.pool_size
  /\ lock = None
  /\ pc = [t \in Tasks |-> "idle"]
  /\ call = [t \in Tasks |-> NoCall]
  /\ ops = [t \in Tasks |-> <<>>]
  /\ results = [t \in Tasks |-> <<>>]
  /\ ip = [t \in Tasks |-> 0]
  /\ held = [t \in Tasks |-> 0]
  /\ txn = [t \in Tasks |-> NoTxn]
  /\ outcome = [t \in Tasks |-> "none"]
  /\ returned = [t \in Tasks |-> NoReturn]
  /\ pre = [t \in Tasks |-> {}]
  /\ log = [t \in Tasks |-> <<>>]
  /\ issued = 0
  /\ lastput = {}
  /\ onlyputs = TRUE
  /\ deleted = {}
  /\ deleted_c = {}
  /\ mig = [t \in Tasks |-> NoMig]
  /\ unsynced = [t \in Tasks |-> 0]
  /\ ctor = NoCtor
  /\ blocking = [t \in Tasks |-> NoBlocking]
  /\ built = NoBuilt

\* a store instance as constructed, before any call
InitProgram ==
  /\ self \in Stores
  /\ InitState

\* one batch, by the first task, on a database that may already hold an item
Init ==
  /\ InitProgram
  /\ store \in InitialStores
  /\ left = [t \in Tasks |-> IF t = "t1" THEN 1 ELSE 0]
  /\ InitSchema

\* a series of facade calls by the first task, on an empty database
InitFacade ==
  /\ InitProgram
  /\ store = {}
  /\ left = [t \in Tasks |-> IF t = "t1" THEN MaxCalls ELSE 0]
  /\ InitSchema

\* ---------------------------------------------------------------- actions
\* abatch, lines 78-79: group the operations and allocate the results list;
\* the task then waits for its connection
abatch(t, c, opseq) ==
  /\ pc' = [pc EXCEPT ![t] = "acquire"]
  /\ call' = [call EXCEPT ![t] = c]
  /\ ops' = [ops EXCEPT ![t] = opseq]
  /\ results' = [results EXCEPT ![t] = [i \in 1..(_group_ops(opseq).num_ops) |-> ResNone]]
  /\ ip' = [ip EXCEPT ![t] = 0]
  /\ log' = [log EXCEPT ![t] = <<>>]
  /\ outcome' = [outcome EXCEPT ![t] = "running"]
  /\ returned' = [returned EXCEPT ![t] = NoReturn]
  /\ pre' = [pre EXCEPT ![t] = store]
  /\ issued' = issued + 1
  /\ left' = [left EXCEPT ![t] = left[t] - 1]
  /\ UNCHANGED <<store_migrations, applied, mig, unsynced, ctor, blocking, built>>
  /\ UNCHANGED <<self, store, store_vectors, now, pool_free, lock, held, txn, lastput,
                 deleted_c>>

\* the singleton list put / aput hands to batch
put_op(namespace, key, value, index) == <<PutOp(namespace, key, value, index)>>

\* the singleton list delete / adelete hands to batch
delete_op(namespace, key) == <<PutOp(namespace, key, None, IndexDefault)>>

\* batch(ops) / abatch(ops) called directly
CallBatch(t) ==
  /\ pc[t] = "idle"
  /\ left[t] > 0
  /\ \E opseq \in OpLists(MaxOps) : abatch(t, [api |-> "batch"], opseq)
  /\ onlyputs' = FALSE
  /\ UNCHANGED deleted

\* put / aput: validate the namespace, then a singleton batch
CallPut(t) ==
  /\ pc[t] = "idle"
  /\ left[t] > 0
  /\ \E ns \in PutNamespaces, k \in Keys :
     \E v \in PutValues(<<ns, k>>) \ {None} :
       LET c == [api |-> "put", namespace |-> ns, key |-> k, value |-> v]
       IN  IF _validate_namespace(ns) # "ok"
           THEN /\ call' = [call EXCEPT ![t] = c]
                /\ outcome' = [outcome EXCEPT ![t] = _validate_namespace(ns)]
                /\ returned' = [returned EXCEPT ![t] = NoReturn]
                /\ pre' = [pre EXCEPT ![t] = store]
                /\ left' = [left EXCEPT ![t] = left[t] - 1]
                /\ UNCHANGED <<store_migrations, applied, mig, unsynced, ctor, blocking, built>>
                /\ UNCHANGED <<self, store, store_vectors, now, pool_free, lock, pc,
                               ops, results, ip, held, txn, log, issued, lastput,
                               deleted, deleted_c>>
           ELSE /\ abatch(t, c, put_op(ns, k, v, IndexDefault))
                /\ deleted' = {d \in deleted : ~(d.namespace = ns /\ d.key = k)}
  /\ UNCHANGED onlyputs

\* delete / adelete: a singleton batch with a null value, not validated
CallDelete(t) ==
  /\ pc[t] = "idle"
  /\ left[t] > 0
  /\ \E x \in Targets :
       abatch(t, [api |-> "delete", namespace |-> x[1], key |-> x[2]],
              delete_op(x[1], x[2]))
  /\ onlyputs' = FALSE
  /\ UNCHANGED deleted

\* get / aget
CallGet(t) ==
  /\ pc[t] = "idle"
  /\ left[t] > 0
  /\ \E x \in Targets :
       abatch(t, [api |-> "get", namespace |-> x[1], key |-> x[2]],
              <<GetOp(x[1], x[2])>>)
  /\ UNCHANGED <<onlyputs, deleted>>

\* search / asearch with the default limit and offset, no filter, no query
CallSearch(t) ==
  /\ pc[t] = "idle"
  /\ left[t] > 0
  /\ abatch(t, [api |-> "search", namespace |-> <<La>>],
            <<SearchOp(<<La>>, None, SearchLimit, 0, None)>>)
  /\ UNCHANGED <<onlyputs, deleted>>

\* the cursor of task t is on a connection in pipeline mode: the store's
\* pipe, or conn.pipeline() entered with the lock
InPipeline(t) == pc[t] = "run" /\ (self.pipe \/ self.supports_pipeline)

\* unsynced after task t sent a statement: a fetch of rows syncs the pipeline
Sent(t, stmt) ==
  IF ~InPipeline(t) THEN unsynced
  ELSE IF stmt \in {"SELECT", "SEARCH", "LIST"} THEN [unsynced EXCEPT ![t] = 0]
  ELSE [unsynced EXCEPT ![t] = unsynced[t] + 1]

\* unsynced after pipe.sync() / the exit of conn.pipeline(): everything sent
\* on the connection is synced
Synced(t) ==
  IF self.conn = "single" THEN [u \in Tasks |-> 0] ELSE [unsynced EXCEPT ![t] = 0]

\* leaving _cursor and abatch without a sync
ExitSync_skip(t) == unsynced

\* leaving _cursor and abatch: in pipeline mode the pipeline is synced
ExitSync(t) == IF InPipeline(t) THEN Synced(t) ELSE unsynced

\* leaving the context managers without releasing the lock
Release_keeps_lock(t) ==
  /\ lock' = lock
  /\ pool_free' = pool_free + held[t]
  /\ held' = [held EXCEPT ![t] = 0]

\* leaving every context manager the task is in: the lock is released and
\* the connections go back to the pool
Release(t) ==
  /\ lock' = IF lock = t THEN None ELSE lock
  /\ pool_free' = pool_free + held[t]
  /\ held' = [held EXCEPT ![t] = 0]

\* Raise handing back the results filled so far
Raise_partial(t, err) ==
  /\ pc' = [pc EXCEPT ![t] = "idle"]
  /\ outcome' = [outcome EXCEPT ![t] = err]
  /\ returned' = [returned EXCEPT ![t] = RetList(results[t])]
  /\ Release(t)
  /\ UNCHANGED <<store, store_vectors>>
  /\ results' = [results EXCEPT ![t] = <<>>]
  /\ ip' = [ip EXCEPT ![t] = 0]
  /\ txn' = [txn EXCEPT ![t] = NoTxn]
  /\ log' = [log EXCEPT ![t] = <<>>]
  /\ onlyputs' = FALSE
  /\ unsynced' = ExitSync(t)
  /\ UNCHANGED <<store_migrations, applied, mig, ctor, blocking, built>>
  /\ UNCHANGED <<self, now, call, ops, pre, left, issued, lastput, deleted, deleted_c>>

\* Raise undoing the records of the setup run that fails
Raise_undo(t, err) ==
  /\ pc' = [pc EXCEPT ![t] = "idle"]
  /\ outcome' = [outcome EXCEPT ![t] = err]
  /\ returned' = [returned EXCEPT ![t] = NoReturn]
  /\ Release(t)
  /\ UNCHANGED <<store, store_vectors>>
  /\ results' = [results EXCEPT ![t] = <<>>]
  /\ ip' = [ip EXCEPT ![t] = 0]
  /\ txn' = [txn EXCEPT ![t] = NoTxn]
  /\ log' = [log EXCEPT ![t] = <<>>]
  /\ onlyputs' = FALSE
  /\ unsynced' = ExitSync(t)
  /\ store_migrations' = IF call[t].api = "setup" THEN mig[t].table0 ELSE store_migrations
  /\ UNCHANGED <<applied, mig, ctor, blocking, built>>
  /\ UNCHANGED <<self, now, call, ops, pre, left, issued, lastput, deleted, deleted_c>>

\* an exception leaves abatch: nothing is returned; conn.transaction() rolls
\* back what the batch wrote
Raise(t, err) ==
  /\ pc' = [pc EXCEPT ![t] = "idle"]
  /\ outcome' = [outcome EXCEPT ![t] = err]
  /\ returned' = [returned EXCEPT ![t] = NoReturn]
  /\ Release(t)
  /\ IF pc[t] = "run" /\ ~self.pipe /\ ~self.supports_pipeline
     THEN /\ store' = txn[t].store
          /\ store_vectors' = txn[t].store_vectors
     ELSE UNCHANGED <<store, store_vectors>>
  /\ results' = [results EXCEPT ![t] = <<>>]
  /\ ip' = [ip EXCEPT ![t] = 0]
  /\ txn' = [txn EXCEPT ![t] = NoTxn]
  /\ log' = [log EXCEPT ![t] = <<>>]
  /\ onlyputs' = FALSE
  /\ unsynced' = ExitSync(t)
  /\ UNCHANGED <<store_migrations, applied, mig, ctor, blocking, built>>
  /\ UNCHANGED <<self, now, call, ops, pre, left, issued, lastput, deleted, deleted_c>>

\* abatch line 81: get_connection(self.conn), a checkout when conn is a pool
Acquire(t) ==
  /\ pc[t] = "acquire"
  /\ IF self.conn = "pool"
     THEN /\ pool_free > 0
          /\ pool_free' = pool_free - 1
          /\ held' = [held EXCEPT ![t] = held[t] + 1]
     ELSE UNCHANGED <<pool_free, held>>
  /\ pc' = [pc EXCEPT ![t] = "cursor_conn"]
  /\ UNCHANGED <<store_migrations, applied, mig, unsynced, ctor, blocking, built>>
  /\ UNCHANGED <<self, store, store_vectors, now, lock, call, ops, results, ip, txn,
                 outcome, returned, pre, log, left, issued, lastput, onlyputs,
                 deleted, deleted_c>>

\* _cursor line 330: get_connection(self.conn) again; with a pipe the cursor
\* opens at once, otherwise the task goes on to take the lock
CursorConn(t) ==
  /\ pc[t] = "cursor_conn"
  /\ IF self.conn = "pool"
     THEN /\ pool_free > 0
          /\ pool_free' = pool_free - 1
          /\ held' = [held EXCEPT ![t] = held[t] + 1]
     ELSE UNCHANGED <<pool_free, held>>
  /\ pc' = [pc EXCEPT ![t] = IF self.pipe THEN "run" ELSE "cursor_lock"]
  /\ UNCHANGED <<store_migrations, applied, mig, unsynced, ctor, blocking, built>>
  /\ UNCHANGED <<self, store, store_vectors, now, lock, call, ops, results, ip, txn,
                 outcome, returned, pre, log, left, issued, lastput, onlyputs,
                 deleted, deleted_c>>

\* _cursor opening the cursor without waiting for self.lock
CursorLock_nowait(t) ==
  /\ pc[t] = "cursor_lock"
  /\ lock' = t
  /\ txn' = [txn EXCEPT ![t] = IF self.supports_pipeline THEN NoTxn
                               ELSE [store |-> store, store_vectors |-> store_vectors]]
  /\ pc' = [pc EXCEPT ![t] = "run"]
  /\ UNCHANGED <<store_migrations, applied, mig, unsynced, ctor, blocking, built>>
  /\ UNCHANGED <<self, store, store_vectors, now, pool_free, call, ops, results, ip,
                 held, outcome, returned, pre, log, left, issued, lastput, onlyputs,
                 deleted, deleted_c>>

\* _cursor lines 344-357: self.lock, then conn.pipeline() or
\* conn.transaction(), then the cursor
CursorLock(t) ==
  /\ pc[t] = "cursor_lock"
  /\ lock = None
  /\ lock' = t
  /\ txn' = [txn EXCEPT ![t] = IF self.supports_pipeline THEN NoTxn
                               ELSE [store |-> store, store_vectors |-> store_vectors]]
  /\ pc' = [pc EXCEPT ![t] = "run"]
  /\ UNCHANGED <<store_migrations, applied, mig, unsynced, ctor, blocking, built>>
  /\ UNCHANGED <<self, store, store_vectors, now, pool_free, call, ops, results, ip,
                 held, outcome, returned, pre, log, left, issued, lastput, onlyputs,
                 deleted, deleted_c>>

\* the next step of _execute_batch: one statement, or the embedder call
Dispatch(t) ==
  /\ pc[t] = "run"
  /\ ip[t] < Len(Steps(t))
  /\ \E step \in {Steps(t)[ip[t] + 1]} :
         IF step.stmt = "EMBED" /\ self.embeddings = None
         THEN Raise(t, "ValueError")
         ELSE /\ ip' = [ip EXCEPT ![t] = ip[t] + 1]
              /\ log' = [log EXCEPT ![t] = Append(log[t], [group |-> step.group,
                                                           stmt |-> step.stmt])]
              /\ results' = [results EXCEPT ![t] =
                   CASE step.stmt = "SELECT" -> GetReplies(results[t], step.q, ExecSelect(step.q))
                     [] step.stmt = "SEARCH" ->
                          [results[t] EXCEPT ![step.idx] = SearchReply(ExecSearch(step.q))]
                     [] step.stmt = "LIST" ->
                          [results[t] EXCEPT ![step.idx] = ListReply(ExecList(step.q))]
                     [] OTHER -> results[t]]
              /\ CASE step.stmt = "DELETE" ->
                        /\ store' = ExecDelete(store, step.q)
                        /\ store_vectors' = Cascade(store_vectors, ExecDelete(store, step.q))
                        /\ UNCHANGED now
                   [] step.stmt = "INSERT" ->
                        /\ \E ts \in now..Min(now + 1, MaxClock) :
                             /\ now' = ts
                             /\ store' = ExecInsert(store, step.q, ts)
                        /\ UNCHANGED store_vectors
                   [] step.stmt = "UPSERT_VECTORS" ->
                        /\ store_vectors' = ExecUpsertVectors(store_vectors, step.q)
                        /\ UNCHANGED <<store, now>>
                   [] OTHER -> UNCHANGED <<store, store_vectors, now>>
              /\ unsynced' = (IF step.stmt \in {"EMBED", "EMBED_QUERY"} THEN unsynced
                               ELSE Sent(t, step.stmt))
              /\ UNCHANGED <<store_migrations, applied, mig, ctor, blocking, built>>
              /\ UNCHANGED <<self, pool_free, lock, pc, call, ops, held, txn, outcome,
                             returned, pre, left, issued, lastput, onlyputs, deleted,
                             deleted_c>>

\* what the facade hands back from the results of its batch
FacadeReturn(c, res) ==
  CASE c.api = "batch" -> RetList(res)
    [] c.api \in {"get", "search"} -> res[1]
    [] OTHER -> ResNone

\* abatch line 88: every step is done, the contexts are left and the results
\* list is returned
Return(t) ==
  /\ pc[t] = "run"
  /\ ip[t] = Len(Steps(t))
  /\ pc' = [pc EXCEPT ![t] = "idle"]
  /\ outcome' = [outcome EXCEPT ![t] = "ok"]
  /\ returned' = [returned EXCEPT ![t] = FacadeReturn(call[t], results[t])]
  /\ Release(t)
  /\ lastput' = IF call[t].api = "put"
                THEN {p \in lastput : ~(p.namespace = call[t].namespace
                                         /\ p.key = call[t].key)}
                     \cup {[namespace |-> call[t].namespace, key |-> call[t].key,
                            value |-> call[t].value]}
                ELSE lastput
  /\ LET mine(d) == d.namespace = call[t].namespace /\ d.key = call[t].key
         gone == [namespace |-> call[t].namespace, key |-> call[t].key,
                  existed |-> \E r \in pre[t] :
                                /\ r.prefix = _namespace_to_text(call[t].namespace)
                                /\ r.key = call[t].key]
     IN  CASE call[t].api = "delete" ->
                /\ deleted' = {d \in deleted : ~mine(d)} \cup {gone}
                /\ deleted_c' = {d \in deleted_c : ~mine(d)} \cup {gone}
           [] call[t].api = "put" ->
                /\ deleted_c' = {d \in deleted_c : ~mine(d)}
                /\ UNCHANGED deleted
           [] OTHER -> UNCHANGED <<deleted, deleted_c>>
  /\ results' = [results EXCEPT ![t] = <<>>]
  /\ ip' = [ip EXCEPT ![t] = 0]
  /\ txn' = [txn EXCEPT ![t] = NoTxn]
  /\ log' = [log EXCEPT ![t] = <<>>]
  /\ unsynced' = ExitSync(t)
  /\ UNCHANGED <<store_migrations, applied, mig, ctor, blocking, built>>
  /\ UNCHANGED <<self, store, store_vectors, now, call, ops, pre, left, issued,
                 onlyputs>>

\* a database statement, the embedder, or the wait for a connection fails
Fail(t) ==
  /\ pc[t] # "idle"
  /\ \E err \in {"DatabaseError"} : Raise(t, err)

\* ------------------------------------------------------------------ setup
\* what the batch engine keeps and setup never touches
batch_state ==
  <<ops, results, ip, txn, pre, log, issued, lastput, onlyputs, deleted, deleted_c>>

\* setup is called: it enters self._cursor() (no pipeline requested)
CallSetup(t) ==
  /\ pc[t] = "idle"
  /\ left[t] > 0
  /\ pc' = [pc EXCEPT ![t] = "setup_conn"]
  /\ mig' = [mig EXCEPT ![t] =
               [NoMig EXCEPT !.table0 = store_migrations,
                             !.after_ok = (call[t] = [api |-> "setup"]
                                           /\ outcome[t] = "ok")]]
  /\ call' = [call EXCEPT ![t] = [api |-> "setup"]]
  /\ outcome' = [outcome EXCEPT ![t] = "running"]
  /\ returned' = [returned EXCEPT ![t] = NoReturn]
  /\ left' = [left EXCEPT ![t] = left[t] - 1]
  /\ UNCHANGED <<self, store, store_vectors, now, pool_free, lock, held, batch_state,
                 store_migrations, applied, unsynced, ctor, blocking, built>>

\* _cursor line 330 under setup: get_connection(self.conn); with a pipe the
\* cursor opens at once, otherwise the task goes on to take the lock
SetupConn(t) ==
  /\ pc[t] = "setup_conn"
  /\ IF self.conn = "pool"
     THEN /\ pool_free > 0
          /\ pool_free' = pool_free - 1
          /\ held' = [held EXCEPT ![t] = held[t] + 1]
     ELSE UNCHANGED <<pool_free, held>>
  /\ pc' = [pc EXCEPT ![t] = IF self.pipe THEN "setup_select" ELSE "setup_lock"]
  /\ UNCHANGED <<self, store, store_vectors, now, lock, call, outcome, returned, left,
                 batch_state, store_migrations, applied, mig, unsynced, ctor, blocking, built>>

\* _cursor lines 358-363: self.lock, then a plain cursor
SetupLock(t) ==
  /\ pc[t] = "setup_lock"
  /\ lock = None
  /\ lock' = t
  /\ pc' = [pc EXCEPT ![t] = "setup_select"]
  /\ UNCHANGED <<self, store, store_vectors, now, pool_free, held, call, outcome,
                 returned, left, batch_state, store_migrations, applied, mig, unsynced,
                 ctor, blocking, built>>

\* setup lines 151-160: the highest recorded version, -1 when there is no
\* row; a missing table raises UndefinedTable
SetupSelect(t) ==
  /\ pc[t] = "setup_select"
  /\ IF store_migrations.exists
     THEN /\ mig' = [mig EXCEPT ![t].version = ReadVersion(store_migrations.rows),
                                ![t].v = FirstIndex(ReadVersion(store_migrations.rows))]
          /\ pc' = [pc EXCEPT ![t] = "setup_loop"]
     ELSE /\ mig' = [mig EXCEPT ![t].version = -1]
          /\ pc' = [pc EXCEPT ![t] = "setup_create"]
  /\ unsynced' = IF self.pipe THEN [unsynced EXCEPT ![t] = 0] ELSE unsynced
  /\ UNCHANGED <<self, store, store_vectors, now, pool_free, lock, held, call, outcome,
                 returned, left, batch_state, store_migrations, applied, ctor, blocking, built>>

\* setup lines 161-169: CREATE TABLE IF NOT EXISTS store_migrations
SetupCreate(t) ==
  /\ pc[t] = "setup_create"
  /\ store_migrations' = [store_migrations EXCEPT !.exists = TRUE]
  /\ mig' = [mig EXCEPT ![t].v = FirstIndex(mig[t].version)]
  /\ pc' = [pc EXCEPT ![t] = "setup_loop"]
  /\ unsynced' = IF self.pipe THEN [unsynced EXCEPT ![t] = unsynced[t] + 1] ELSE unsynced
  /\ UNCHANGED <<self, store, store_vectors, now, pool_free, lock, held, call, outcome,
                 returned, left, batch_state, applied, ctor, blocking, built>>

\* setup lines 171-188: the next entry that is not skipped; its statement runs
SetupMigrate(t) ==
  /\ pc[t] = "setup_loop"
  /\ Runnable(mig[t].v) < Len(MIGRATIONS)
  /\ applied' = Append(applied, Runnable(mig[t].v))
  /\ mig' = [mig EXCEPT ![t].v = Runnable(mig[t].v),
                        ![t].ran = Append(mig[t].ran, Runnable(mig[t].v))]
  /\ pc' = [pc EXCEPT ![t] = "setup_record"]
  /\ unsynced' = IF self.pipe THEN [unsynced EXCEPT ![t] = unsynced[t] + 1] ELSE unsynced
  /\ UNCHANGED <<self, store, store_vectors, now, pool_free, lock, held, call, outcome,
                 returned, left, batch_state, store_migrations, ctor, blocking, built>>

\* setup line 189: INSERT INTO store_migrations (v); v is the primary key
SetupRecord(t) ==
  /\ pc[t] = "setup_record"
  /\ IF mig[t].v \in store_migrations.rows
     THEN Raise(t, "UniqueViolation")
     ELSE /\ store_migrations' =
               [store_migrations EXCEPT !.rows = store_migrations.rows \cup {mig[t].v}]
          /\ mig' = [mig EXCEPT ![t].v = mig[t].v + 1]
          /\ pc' = [pc EXCEPT ![t] = "setup_loop"]
          /\ unsynced' = IF self.pipe THEN [unsynced EXCEPT ![t] = unsynced[t] + 1]
                         ELSE unsynced
          /\ UNCHANGED <<self, store, store_vectors, now, pool_free, lock, held, call,
                         outcome, returned, left, batch_state, applied, ctor, blocking, built>>

\* the loop is over: setup leaves _cursor (nothing is synced: no pipeline was
\* requested) and returns
SetupReturn(t) ==
  /\ pc[t] = "setup_loop"
  /\ Runnable(mig[t].v) = Len(MIGRATIONS)
  /\ pc' = [pc EXCEPT ![t] = "idle"]
  /\ outcome' = [outcome EXCEPT ![t] = "ok"]
  /\ returned' = [returned EXCEPT ![t] = ResNone]
  /\ Release(t)
  /\ UNCHANGED <<self, store, store_vectors, now, call, left, batch_state,
                 store_migrations, applied, mig, unsynced, ctor, blocking, built>>

\* one batch per task
Next ==
  \E t \in Tasks :
    \/ CallBatch(t)
    \/ Acquire(t)
    \/ CursorConn(t)
    \/ CursorLock(t)
    \/ Dispatch(t)
    \/ Return(t)
    \/ Fail(t)

Spec == Init /\ [][Next]_vars

\* the facade: put, delete, get and search, each a singleton batch
NextFacade ==
  \E t \in Tasks :
    \/ CallPut(t)
    \/ CallDelete(t)
    \/ CallGet(t)
    \/ CallSearch(t)
    \/ Acquire(t)
    \/ CursorConn(t)
    \/ CursorLock(t)
    \/ Dispatch(t)
    \/ Return(t)
    \/ Fail(t)

SpecFacade == InitFacade /\ [][NextFacade]_vars

\* setup runs, one after the other, on a database that starts without tables
InitSetup ==
  /\ InitProgram
  /\ store = {}
  /\ left = [t \in Tasks |-> IF t = "t1" THEN MaxCalls ELSE 0]
  /\ store_migrations = NoTable
  /\ applied = <<>>

NextSetup ==
  \E t \in Tasks :
    \/ CallSetup(t)
    \/ SetupConn(t)
    \/ SetupLock(t)
    \/ SetupSelect(t)
    \/ SetupCreate(t)
    \/ SetupMigrate(t)
    \/ SetupRecord(t)
    \/ SetupReturn(t)
    \/ Fail(t)

SpecSetup == InitSetup /\ [][NextSetup]_vars

\* the operation lists of the concurrent batches
ConcOpLists ==
  {<<>>,
   <<GetOp(<<La>>, "k1")>>,
   <<PutOp(<<La>>, "k1", "v2", IndexDefault)>>,
   <<PutOp(<<La>>, "k2", "v1", IndexDefault), GetOp(<<La>>, "k1")>>}

CallBatchConc(t) ==
  /\ pc[t] = "idle"
  /\ left[t] > 0
  /\ \E opseq \in ConcOpLists : abatch(t, [api |-> "batch"], opseq)
  /\ onlyputs' = FALSE
  /\ UNCHANGED deleted

\* every task makes one call, a batch or setup, on the same store instance
InitConc ==
  /\ InitProgram
  /\ store \in InitialStores
  /\ left = [t \in Tasks |-> 1]
  /\ \/ store_migrations = NoTable /\ applied = <<>>
     \/ InitSchema

NextConc ==
  \E t \in Tasks :
    \/ CallBatchConc(t)
    \/ Acquire(t)
    \/ CursorConn(t)
    \/ CursorLock(t)
    \/ Dispatch(t)
    \/ Return(t)
    \/ CallSetup(t)
    \/ SetupConn(t)
    \/ SetupLock(t)
    \/ SetupSelect(t)
    \/ SetupCreate(t)
    \/ SetupMigrate(t)
    \/ SetupRecord(t)
    \/ SetupReturn(t)
    \/ Fail(t)

SpecConc == InitConc /\ [][NextConc]_vars

\* stores on one connection whose embedder may be absent while indexing is
\* configured: the state the check of _batch_put_ops is written for
EmbedStores ==
  {s \in {[conn |-> "single", pool_size |-> 0, pipe |-> FALSE,
            supports_pipeline |-> sp, index_config |-> ic, embeddings |-> e]
             : sp \in BOOLEAN, ic \in {NoIndexConfig, IndexConfig},
               e \in {None, "embedder"}} :
     s.index_config.tag # "None" \/ s.embeddings = None}

\* the operations of the batches that ask for vectors, or do not
EmbedOps ==
  {SearchOp(<<La>>, None, SearchLimit, 0, "v1"),
   SearchOp(<<La>>, None, SearchLimit, 0, "v2"),
   SearchOp(<<La>>, None, SearchLimit, 0, None),
   PutOp(<<La>>, "k1", "v2", IndexDefault),
   PutOp(<<La>>, "k2", "v1", IndexDefault),
   PutOp(<<La>>, "k2", "v1", IndexFalse),
   GetOp(<<La>>, "k1")}

MaxEmbedOps == 2

CallBatchEmbed(t) ==
  /\ pc[t] = "idle"
  /\ left[t] > 0
  /\ \E opseq \in UNION {[1..m -> EmbedOps] : m \in 1..MaxEmbedOps} :
       abatch(t, [api |-> "batch"], opseq)
  /\ onlyputs' = FALSE
  /\ UNCHANGED deleted

InitEmbed ==
  /\ self \in EmbedStores
  /\ InitState
  /\ store \in InitialStores
  /\ left = [t \in Tasks |-> IF t = "t1" THEN 1 ELSE 0]
  /\ InitSchema

NextEmbed ==
  \E t \in Tasks :
    \/ CallBatchEmbed(t)
    \/ Acquire(t)
    \/ CursorConn(t)
    \/ CursorLock(t)
    \/ Dispatch(t)
    \/ Return(t)
    \/ Fail(t)

SpecEmbed == InitEmbed /\ [][NextEmbed]_vars

\* ------------------------------------------------- setup across instances
\* a new store instance on the same connection source and database, with the
\* other index configuration, once no call is under way; no call has been
\* made on the new instance
Reopen ==
  /\ \A t \in Tasks : pc[t] = "idle"
  /\ \E ic \in {NoIndexConfig, IndexConfig} \ {self.index_config} :
       self' = [self EXCEPT !.index_config = ic,
                            !.embeddings = IF ic.tag = "None" THEN None
                                           ELSE "embedder"]
  /\ call' = [t \in Tasks |-> NoCall]
  /\ outcome' = [t \in Tasks |-> "none"]
  /\ returned' = [t \in Tasks |-> NoReturn]
  /\ UNCHANGED <<store, store_vectors, now, pool_free, lock, pc, ops, results, ip,
                 held, txn, pre, log, left, issued, lastput, onlyputs, deleted,
                 deleted_c, store_migrations, applied, mig, unsynced, ctor,
                 blocking, built>>

\* setup runs that meet no failure, on store instances that may differ in
\* their index configuration
NextReopen ==
  \/ Reopen
  \/ \E t \in Tasks :
       \/ CallSetup(t)
       \/ SetupConn(t)
       \/ SetupLock(t)
       \/ SetupSelect(t)
       \/ SetupCreate(t)
       \/ SetupMigrate(t)
       \/ SetupRecord(t)
       \/ SetupReturn(t)

\* single-connection stores on a database without tables
InitReopen ==
  /\ InitSetup
  /\ self.conn = "single"

SpecReopen == InitReopen /\ [][NextReopen]_vars

\* -------------------------------------------------------- concurrent setups
\* every task calls setup once on the same store instance, on a database
\* without tables; no statement fails for a reason outside setup
InitSetupConc ==
  /\ InitProgram
  /\ store = {}
  /\ left = [t \in Tasks |-> 1]
  /\ store_migrations = NoTable
  /\ applied = <<>>

NextSetupConc ==
  \E t \in Tasks :
    \/ CallSetup(t)
    \/ SetupConn(t)
    \/ SetupLock(t)
    \/ SetupSelect(t)
    \/ SetupCreate(t)
    \/ SetupMigrate(t)
    \/ SetupRecord(t)
    \/ SetupReturn(t)

SpecSetupConc == InitSetupConc /\ [][NextSetupConc]_vars

\* ------------------------------------------------------------ pooled stores
\* a pool-backed store; every task makes one batch call
InitPool ==
  /\ InitProgram
  /\ self.conn = "pool"
  /\ store \in InitialStores
  /\ left = [t \in Tasks |-> 1]
  /\ InitSchema

\* the database and the embedder always answer: no step fails
NextPool ==
  \E t \in Tasks :
    \/ CallBatchConc(t)
    \/ Acquire(t)
    \/ CursorConn(t)
    \/ CursorLock(t)
    \/ Dispatch(t)
    \/ Return(t)

SpecPool == InitPool /\ [][NextPool]_vars

\* ------------------------------------------------------------------ items
MaxTime == 3

\* Item.__init__: a timestamp given as a string is parsed
Item__init__(value, key, namespace, created_at, updated_at) ==
  Item(value, key, namespace,
       IF created_at.type = "str" THEN fromisoformat(created_at.v) ELSE created_at.v,
       IF updated_at.type = "str" THEN fromisoformat(created_at.v) ELSE updated_at.v)

\* Item.dict(): the timestamps as ISO-8601 strings
Item_dict(it) ==
  [value |-> it.value, key |-> it.key, namespace |-> it.namespace,
   created_at |-> IsoStr(isoformat(it.created_at)),
   updated_at |-> IsoStr(isoformat(it.updated_at))]

\* Item.__eq__
Item__eq__(a, b) ==
  /\ a.value = b.value
  /\ a.key = b.key
  /\ a.namespace = b.namespace
  /\ a.created_at = b.created_at
  /\ a.updated_at = b.updated_at

\* everything but the item at hand
not_built ==
  <<self, store, store_vectors, now, pool_free, lock, pc, call, ops, results, ip,
    held, txn, outcome, returned, pre, log, left, issued, lastput, onlyputs,
    deleted, deleted_c, store_migrations, applied, mig, unsynced, ctor, blocking>>

\* an Item is made from datetimes
NewItem ==
  /\ built.phase \in {"none", "rebuilt"}
  /\ \E value \in Values, key \in Keys, c \in 0..MaxTime, u \in 0..MaxTime :
       built' = [phase |-> "item",
                 item |-> Item__init__(value, key, <<La>>, Datetime(c), Datetime(u))]
  /\ UNCHANGED not_built

\* item.dict()
ItemDict ==
  /\ built.phase = "item"
  /\ built' = [phase |-> "dict", item |-> built.item, dict |-> Item_dict(built.item)]
  /\ UNCHANGED not_built

\* Item(**d) for the dict d
ItemFromDict ==
  /\ built.phase = "dict"
  /\ built' = [phase |-> "rebuilt", item |-> built.item, dict |-> built.dict,
               rebuilt |-> Item__init__(built.dict.value, built.dict.key,
                                        built.dict.namespace, built.dict.created_at,
                                        built.dict.updated_at)]
  /\ UNCHANGED not_built

InitItem ==
  /\ InitProgram
  /\ store = {}
  /\ left = [t \in Tasks |-> 0]
  /\ InitSchema

NextItem ==
  \/ NewItem
  \/ ItemDict
  \/ ItemFromDict

SpecItem == InitItem /\ [][NextItem]_vars

\* ----------------------------------------------------------- construction
MaxCtor == 2

\* an object none of whose attributes is set
NoStore ==
  [conn |-> "unset", pool_size |-> 0, pipe |-> FALSE, supports_pipeline |-> FALSE,
   index_config |-> NoIndexConfig, embeddings |-> None]

\* the parameters __init__ accepts by keyword
InitParams == {"conn", "pipe", "deserializer", "index"}
\* the names the body of __init__ can read: its parameters and self
InitNames == InitParams \cup {"self"}
\* the attributes __init__ assigns before the index configuration, in order
InitAttrs == <<"_deserializer", "conn", "pipe", "lock", "loop", "supports_pipeline">>

\* the check that never rejects
Rejects_never(conn, pipe) == FALSE

\* isinstance(conn, AsyncConnectionPool) and pipe is not None
Rejects(conn, pipe) == conn = "pool" /\ pipe

\* everything but the instance under construction
not_ctor ==
  <<store, store_vectors, now, pool_free, lock, pc, call, ops, results, ip, held,
    txn, outcome, returned, pre, log, left, issued, lastput, onlyputs, deleted,
    deleted_c, store_migrations, applied, mig, unsynced, blocking, built>>

\* the exception leaves the constructor: no instance is returned
CtorRaise(err) ==
  /\ ctor' = [ctor EXCEPT !.phase = "raised", !.error = err]
  /\ UNCHANGED self

\* AsyncPostgresStore(conn, pipe=pipe, index=index)
CallInit ==
  /\ ctor.phase \in {"none", "raised", "done"}
  /\ ctor.n < MaxCtor
  /\ \E conn \in {"single", "pool"}, pipe \in BOOLEAN,
        index \in {NoIndexConfig, IndexConfig} :
       ctor' = [phase |-> "bind", via |-> "__init__", n |-> ctor.n + 1,
                kw |-> {"conn", "pipe", "index"}, conn |-> conn, pipe |-> pipe,
                given |-> index, args |-> <<>>, attrs |-> {}, error |-> None]
  /\ self' = NoStore
  /\ UNCHANGED not_ctor

\* AsyncPostgresStore.from_conn_string(conn_string, pipeline=..,
\* pool_config=.., embedding=..)
CallFromConnString ==
  /\ ctor.phase \in {"none", "raised", "done"}
  /\ ctor.n < MaxCtor
  /\ \E pipeline \in BOOLEAN, pool_config \in BOOLEAN,
        embedding \in {NoIndexConfig, IndexConfig} :
       ctor' = [phase |-> "open", via |-> "from_conn_string", n |-> ctor.n + 1,
                kw |-> {}, conn |-> "none", pipe |-> FALSE, given |-> embedding,
                args |-> <<[pipeline |-> pipeline, pool_config |-> pool_config,
                            embedding |-> embedding]>>,
                attrs |-> {}, error |-> None]
  /\ self' = NoStore
  /\ UNCHANGED not_ctor

\* from_conn_string opens the pool, or the connection and (if asked) its
\* pipeline, and calls cls(conn=.., [pipe=..,] embedding=embedding)
FromConnStringOpen ==
  /\ ctor.phase = "open"
  /\ ctor' = [ctor EXCEPT
       !.phase = "bind",
       !.conn = IF ctor.args[1].pool_config THEN "pool" ELSE "single",
       !.pipe = ~ctor.args[1].pool_config /\ ctor.args[1].pipeline,
       !.kw = {"conn", "embedding"}
              \cup (IF ~ctor.args[1].pool_config /\ ctor.args[1].pipeline
                    THEN {"pipe"} ELSE {})]
  /\ UNCHANGED self
  /\ UNCHANGED not_ctor

\* the call binds its keyword arguments to the parameters of __init__
InitBind ==
  /\ ctor.phase = "bind"
  /\ IF ctor.kw \subseteq InitParams
     THEN ctor' = [ctor EXCEPT !.phase = "check"] /\ UNCHANGED self
     ELSE CtorRaise("TypeError")
  /\ UNCHANGED not_ctor

\* the first statement of __init__: a pool with a pipe is refused
InitCheck ==
  /\ ctor.phase = "check"
  /\ IF Rejects(ctor.conn, ctor.pipe)
     THEN CtorRaise("ValueError")
     ELSE ctor' = [ctor EXCEPT !.phase = "assign"] /\ UNCHANGED self
  /\ UNCHANGED not_ctor

\* the next of the assignments self._deserializer .. self.supports_pipeline
InitAssign ==
  /\ ctor.phase = "assign"
  /\ \E attr \in {InitAttrs[Cardinality(ctor.attrs) + 1]} :
       /\ ctor' = [ctor EXCEPT
            !.attrs = ctor.attrs \cup {attr},
            !.phase = IF Cardinality(ctor.attrs) + 1 = Len(InitAttrs)
                      THEN "index" ELSE "assign"]
       /\ CASE attr = "conn" ->
                 \E n \in (IF ctor.conn = "pool" THEN 1..MaxPool ELSE {0}) :
                   self' = [self EXCEPT !.conn = ctor.conn, !.pool_size = n]
            [] attr = "pipe" -> self' = [self EXCEPT !.pipe = ctor.pipe]
            [] attr = "supports_pipeline" ->
                 \E sp \in BOOLEAN : self' = [self EXCEPT !.supports_pipeline = sp]
            [] OTHER -> UNCHANGED self
  /\ UNCHANGED not_ctor

\* self.index_config = embedding, then the embedder of the configuration
InitIndex ==
  /\ ctor.phase = "index"
  /\ IF "embedding" \in InitNames
     THEN /\ ctor' = [ctor EXCEPT !.phase = "done",
                                  !.attrs = ctor.attrs \cup {"index_config", "embeddings"}]
          /\ self' = [self EXCEPT
               !.index_config = ctor.given,
               !.embeddings = IF ctor.given.tag = "None" THEN None ELSE "embedder"]
     ELSE CtorRaise("NameError")
  /\ UNCHANGED not_ctor

InitConstruct ==
  /\ self = NoStore
  /\ InitState
  /\ store = {}
  /\ left = [t \in Tasks |-> 0]
  /\ InitSchema

NextConstruct ==
  \/ CallInit
  \/ CallFromConnString
  \/ FromConnStringOpen
  \/ InitBind
  \/ InitCheck
  \/ InitAssign
  \/ InitIndex

SpecConstruct == InitConstruct /\ [][NextConstruct]_vars

\* ------------------------------------------------------- the blocking form
\* the threads batch can be called from: the thread that runs self.loop, or
\* any other
Callers == {"loop", "other"}

\* the thread of self.loop is free to run the loop: no caller waits on it
LoopRuns == \A u \in Tasks : ~(blocking[u].state = "waiting" /\ blocking[u].caller = "loop")

\* batch(ops): run_coroutine_threadsafe posts self.abatch(ops) to self.loop,
\* and .result() blocks the calling thread until the future is done
CallBlockingBatch(t) ==
  /\ pc[t] = "idle"
  /\ left[t] > 0
  /\ \E caller \in Callers, opseq \in ConcOpLists :
       blocking' = [blocking EXCEPT ![t] =
                      [state |-> "waiting", caller |-> caller, ops |-> opseq,
                       result |-> NoReturn, error |-> "none"]]
  /\ pc' = [pc EXCEPT ![t] = "posted"]
  /\ UNCHANGED <<self, store, store_vectors, now, pool_free, lock, call, ops,
                 results, ip, held, txn, outcome, returned, pre, log, left, issued,
                 lastput, onlyputs, deleted, deleted_c, store_migrations, applied,
                 mig, unsynced, ctor, built>>

\* the loop starts the posted coroutine
LoopStart(t) ==
  /\ pc[t] = "posted"
  /\ abatch(t, [api |-> "batch"], blocking[t].ops)
  /\ onlyputs' = FALSE
  /\ UNCHANGED deleted

\* the future is done: .result() returns what abatch returned, or raises what
\* it raised
BlockingReturn(t) ==
  /\ blocking[t].state = "waiting"
  /\ pc[t] = "idle"
  /\ blocking' = [blocking EXCEPT ![t] =
                   [@ EXCEPT !.state = "done", !.result = returned[t],
                             !.error = outcome[t]]]
  /\ UNCHANGED <<self, store, store_vectors, now, pool_free, lock, pc, call, ops,
                 results, ip, held, txn, outcome, returned, pre, log, left, issued,
                 lastput, onlyputs, deleted, deleted_c, store_migrations, applied,
                 mig, unsynced, ctor, built>>

\* one step of the coroutine of t, taken by the thread of self.loop
LoopStep(t) ==
  /\ LoopRuns
  /\ \/ LoopStart(t)
     \/ Acquire(t)
     \/ CursorConn(t)
     \/ CursorLock(t)
     \/ Dispatch(t)
     \/ Return(t)
     \/ pc[t] # "posted" /\ Fail(t)

\* stores on a single connection; one blocking call is made
InitBlocking ==
  /\ InitProgram
  /\ self.conn = "single"
  /\ store \in InitialStores
  /\ left = [t \in Tasks |-> IF t = "t1" THEN 1 ELSE 0]
  /\ InitSchema

NextBlocking ==
  \E t \in Tasks :
    \/ CallBlockingBatch(t)
    \/ LoopRuns /\ LoopStart(t)
    \/ LoopRuns /\ Acquire(t)
    \/ LoopRuns /\ CursorConn(t)
    \/ LoopRuns /\ CursorLock(t)
    \/ LoopRuns /\ Dispatch(t)
    \/ LoopRuns /\ Return(t)
    \/ LoopRuns /\ pc[t] # "posted" /\ Fail(t)
    \/ BlockingReturn(t)

\* the loop, when its thread is free, keeps running the coroutines that can
\* take a step, and a caller whose future is done wakes up
SpecBlocking ==
  /\ InitBlocking
  /\ [][NextBlocking]_vars
  /\ \A t \in Tasks : WF_vars(LoopStep(t)) /\ WF_vars(BlockingReturn(t))

\* ------------------------------------------------------------------ claims
\* what a get of (namespace, key) answers on the table rows
ItemHeld(rows, namespace, key) ==
  LET hit == {r \in rows : r.prefix = _namespace_to_text(namespace) /\ r.key = key}
  IN  IF hit = {} THEN ResNone
      ELSE LET r == CHOOSE r \in hit : TRUE
           IN  ResItem([value |-> r.value, key |-> r.key, namespace |-> namespace,
                        created_at |-> r.created_at, updated_at |-> r.updated_at])

\* the reply an operation gets on the table rows
ReplyTo(o, rows) ==
  CASE o.op = "GetOp" -> ItemHeld(rows, o.namespace, o.key)
    [] o.op = "PutOp" -> ResNone
    [] o.op = "SearchOp" ->
         LET found == Page(SortRows({r \in rows :
                             IsTextPrefix(_namespace_to_text(o.namespace_prefix), r.prefix)}),
                           o.offset, o.limit)
         IN  ResItems([i \in 1..Len(found) |->
                         [value |-> found[i].value, key |-> found[i].key,
                          namespace |-> _decode_ns_bytes(found[i].prefix),
                          created_at |-> found[i].created_at,
                          updated_at |-> found[i].updated_at, score |-> None]])
    [] o.op = "ListNamespacesOp" ->
         LET found == Page(SortTexts({r.prefix : r \in rows}), o.offset, o.limit)
         IN  ResNamespaces([i \in 1..Len(found) |-> _decode_ns_bytes(found[i])])

BatchDone(t) == call[t].api = "batch" /\ outcome[t] = "ok"
A1 == <<La>>

\* C1: a batch that completes returns one entry per operation, and the entry
\* at i is the reply to ops[i]
C1_ResultsAligned ==
  \A t \in Tasks :
    BatchDone(t) =>
      /\ returned[t].tag = "List"
      /\ Len(returned[t].list) = Len(ops[t])
      /\ \A i \in 1..Len(ops[t]) : returned[t].list[i] = ReplyTo(ops[t][i], pre[t])

C1_Witness ==
  \E t \in Tasks :
    /\ BatchDone(t)
    /\ Len(ops[t]) = 3
    /\ ops[t][1].op = "PutOp" /\ ops[t][2].op = "SearchOp" /\ ops[t][3].op = "GetOp"
    /\ returned[t].list[3].tag = "Item"
    /\ Len(returned[t].list[2].items) = 1

\* C2: a Get of a batch answers from the table as it was before any Put of the
\* same batch, wherever the Gets and Puts stand in the list
C2_GetsSeePreBatch ==
  \A t \in Tasks :
    BatchDone(t) =>
      \A i \in 1..Len(ops[t]) :
        (/\ ops[t][i].op = "GetOp"
         /\ \E j \in 1..Len(ops[t]) :
              /\ ops[t][j].op = "PutOp"
              /\ ops[t][j].namespace = ops[t][i].namespace
              /\ ops[t][j].key = ops[t][i].key)
        => returned[t].list[i] = ItemHeld(pre[t], ops[t][i].namespace, ops[t][i].key)

C2_Witness ==
  \E t \in Tasks :
    /\ BatchDone(t)
    /\ ops[t] = <<PutOp(A1, "k1", "v2", IndexDefault), GetOp(A1, "k1"),
                  PutOp(A1, "k1", None, IndexDefault)>>
    /\ returned[t].list[2].tag = "Item"
    /\ returned[t].list[2].item.value = "v1"
    /\ store = {}

GroupRank(g) ==
  CASE g = "GetOp" -> 1 [] g = "SearchOp" -> 2 [] g = "ListNamespacesOp" -> 3
    [] g = "PutOp" -> 4

\* C3: the steps of a batch are dispatched group by group in the order Get,
\* Search, ListNamespaces, Put
C3_GroupOrder ==
  \A t \in Tasks :
    \A i, j \in 1..Len(log[t]) :
      i < j => GroupRank(log[t][i].group) <= GroupRank(log[t][j].group)

C3_Witness ==
  \E t \in Tasks :
    /\ Len(ops[t]) = 3
    /\ ops[t][1].op = "PutOp" /\ ops[t][2].op = "ListNamespacesOp"
    /\ ops[t][3].op = "SearchOp"
    /\ [i \in 1..Len(log[t]) |-> log[t][i].group]
         = <<"SearchOp", "ListNamespacesOp", "PutOp">>

\* C4: after a series of completed puts, a get returns the value of the last
\* put on its (namespace, key), with updated_at >= created_at
C4_GetReturnsLastPut ==
  \A t \in Tasks :
    (call[t].api = "get" /\ outcome[t] = "ok" /\ onlyputs) =>
      \A p \in lastput :
        (p.namespace = call[t].namespace /\ p.key = call[t].key) =>
          /\ returned[t].tag = "Item"
          /\ returned[t].item.value = p.value
          /\ returned[t].item.updated_at >= returned[t].item.created_at

C4_Witness ==
  \E t \in Tasks :
    /\ call[t].api = "get" /\ outcome[t] = "ok" /\ onlyputs
    /\ \E p \in lastput : p.namespace = call[t].namespace /\ p.key = call[t].key
    /\ returned[t].tag = "Item"
    /\ returned[t].item.value = "v2"
    /\ returned[t].item.updated_at > returned[t].item.created_at

\* C5: of the Puts of one batch on the same (namespace, key) the last in the
\* list wins: afterwards the key holds its value, or nothing if it is null
C5_LastPutWins ==
  \A t \in Tasks :
    BatchDone(t) =>
      \A i \in 1..Len(ops[t]) :
        ops[t][i].op = "PutOp" =>
          LET o == ops[t][SetMax({j \in 1..Len(ops[t]) :
                                    /\ ops[t][j].op = "PutOp"
                                    /\ ops[t][j].namespace = ops[t][i].namespace
                                    /\ ops[t][j].key = ops[t][i].key})]
              got == ItemHeld(store, o.namespace, o.key)
          IN  IF o.value = None THEN got = ResNone
              ELSE got.tag = "Item" /\ got.item.value = o.value

C5_Witness ==
  \E t \in Tasks :
    /\ BatchDone(t)
    /\ ops[t] = <<PutOp(A1, "k1", "v1", IndexDefault), PutOp(A1, "k1", None, IndexDefault),
                  PutOp(A1, "k1", "v2", IndexDefault)>>
    /\ ItemHeld(store, A1, "k1").item.value = "v2"

AbsentFor(t, gone) ==
  /\ (call[t].api = "get"
      /\ \E d \in gone : d.namespace = call[t].namespace /\ d.key = call[t].key)
     => returned[t] = ResNone
  /\ call[t].api = "search" =>
       \A i \in 1..Len(returned[t].items) :
         ~\E d \in gone : /\ d.namespace = returned[t].items[i].namespace
                          /\ d.key = returned[t].items[i].key

\* C6 as stated: after a completed delete, get answers absent and search does
\* not list the key until a later put on it completes
C6_AbsentUntilPutCompletes ==
  \A t \in Tasks : outcome[t] = "ok" => AbsentFor(t, deleted_c)

\* C6 amended: after a completed delete, get answers absent and search does
\* not list the key until a later put on it is issued
C6_AbsentUntilPutIssued ==
  \A t \in Tasks : outcome[t] = "ok" => AbsentFor(t, deleted)

C6_Witness ==
  \E t \in Tasks :
    /\ call[t].api = "get" /\ outcome[t] = "ok"
    /\ \E d \in deleted :
         d.namespace = call[t].namespace /\ d.key = call[t].key /\ d.existed
    /\ returned[t] = ResNone

\* the namespaces the contract rejects
Rejected(namespace) ==
  \/ namespace = <<>>
  \/ \E i \in 1..Len(namespace) :
       \/ ~namespace[i].isstr
       \/ namespace[i].chars = <<>>
       \/ \E c \in 1..Len(namespace[i].chars) : namespace[i].chars[c] = "."
  \/ namespace[1] = Llanggraph

\* C7: put fails with InvalidNamespace on a rejected namespace, issuing no
\* batch and leaving the tables alone; on any other namespace it issues one
\* batch holding the one Put
C7_PutValidatesFirst ==
  [][\A t \in Tasks :
       (left'[t] < left[t] /\ call'[t].api = "put") =>
         IF Rejected(call'[t].namespace)
         THEN /\ outcome'[t] = "InvalidNamespaceError"
              /\ pc'[t] = "idle"
              /\ issued' = issued
              /\ store' = store /\ store_vectors' = store_vectors
         ELSE /\ issued' = issued + 1
              /\ pc'[t] = "acquire"
              /\ ops'[t] = <<PutOp(call'[t].namespace, call'[t].key, call'[t].value,
                                   IndexDefault)>>]_vars

C7_Witness ==
  \E t \in Tasks :
    /\ call[t].api = "put"
    /\ call[t].namespace = <<Llanggraph>>
    /\ outcome[t] = "InvalidNamespaceError"
    /\ issued = 1
    /\ ItemHeld(store, <<La, Llanggraph>>, "k1").tag = "Item"

\* C8: every item held has a namespace of non-empty labels without '.', the
\* first of which is not the reserved one
C8_HeldNamespacesValid ==
  \A r \in store : ~Rejected(_decode_ns_bytes(r.prefix))

\* C9: a batch that fails hands no result list to its caller, and a result
\* list is handed back only once every step of the batch is done
C9_NoResultOnFailure ==
  [][\A t \in Tasks :
       (pc[t] # "idle" /\ pc'[t] = "idle") =>
         \/ /\ outcome'[t] = "ok"
            /\ pc[t] = "run" /\ ip[t] = Len(Steps(t))
            /\ returned'[t] # NoReturn
         \/ /\ outcome'[t] \notin {"ok", "running", "none"}
            /\ returned'[t] = NoReturn]_vars

C9_Witness ==
  \E t \in Tasks :
    /\ outcome[t] = "DatabaseError"
    /\ \E i \in 1..Len(ops[t]) : ops[t][i].op = "GetOp"
    /\ store # pre[t]
    /\ returned[t] = NoReturn

\* C10: a batch on a pooled store never holds more than one connection of the
\* pool, and none once it has ended
C10_OneConnectionPerBatch ==
  \A t \in Tasks : held[t] <= 1 /\ (pc[t] = "idle" => held[t] = 0)

\* task t has an open cursor: it is inside the body of self._cursor()
HasCursor(t) ==
  pc[t] \in {"run", "setup_select", "setup_create", "setup_loop", "setup_record"}

\* C11: on a single connection without a pipe at most one task has an open
\* cursor at any time, under any interleaving of batch and setup calls
C11_LockSerializesCursors ==
  (self.conn = "single" /\ ~self.pipe) =>
    Cardinality({t \in Tasks : HasCursor(t)}) <= 1

C11_Witness ==
  /\ self.conn = "single" /\ ~self.pipe
  /\ \E t, u \in Tasks :
       /\ pc[t] = "run" /\ lock = t
       /\ pc[u] = "setup_lock"

\* C12: on a single connection with a pipe at most one cursor is in use on
\* the pipeline at any time, also when several tasks run batches
C12_OneCursorOnPipe ==
  (self.conn = "single" /\ self.pipe) =>
    Cardinality({t \in Tasks : HasCursor(t) /\ call[t].api = "batch"}) <= 1

\* C13: a batch that has ended, by a failure at any point as by a return, has
\* left no statement unsynced on a connection it had put in pipeline mode
C13_SyncedBeforeRelease ==
  \A t \in Tasks :
    (call[t].api = "batch" /\ pc[t] = "idle") => unsynced[t] = 0

C13_Witness ==
  \E t \in Tasks :
    /\ call[t].api = "batch" /\ outcome[t] = "DatabaseError"
    /\ self.pipe \/ self.supports_pipeline
    /\ issued = 1
    /\ \E r \in store : r.value = "v2"
    /\ unsynced[t] = 0

SetupDone(t) == call[t].api = "setup" /\ outcome[t] = "ok"

\* the indices a setup run executed are those above the version it read that
\* are in the set todo, in list order, and each is recorded
RanExactly(t, todo) ==
  /\ \A r \in mig[t].table0.rows : r <= mig[t].version
  /\ mig[t].version = -1 \/ mig[t].version \in mig[t].table0.rows
  /\ mig[t].ran = Ascending({i \in todo : i > mig[t].version})
  /\ store_migrations.exists
  /\ store_migrations.rows = mig[t].table0.rows \cup Range(mig[t].ran)

\* C14 as stated: a completed setup has executed and recorded exactly the
\* migrations with an index above the version it read, in list order
C14_AppliesAllAbove ==
  \A t \in Tasks :
    SetupDone(t) => RanExactly(t, 0..(Len(MIGRATIONS) - 1))

\* C14 amended: a completed setup has executed and recorded exactly the
\* migrations with an index above the version it read whose condition holds,
\* in list order, and at no point one at or below that version
C14_AppliesRunnableAbove ==
  \A t \in Tasks :
    /\ call[t].api = "setup" =>
         \A k \in 1..Len(mig[t].ran) : mig[t].ran[k] > mig[t].version
    /\ SetupDone(t) =>
         RanExactly(t, {i \in 0..(Len(MIGRATIONS) - 1) : CondHolds(MIGRATIONS[i + 1])})

C14_Witness ==
  \E t \in Tasks :
    /\ SetupDone(t)
    /\ mig[t].version >= 0
    /\ mig[t].ran # <<>>
    /\ self.index_config.tag = "None"

\* C15: a setup that follows a setup that completed executes no migration
\* and leaves store_migrations as it found it
C15_RerunDoesNothing ==
  \A t \in Tasks :
    (call[t].api = "setup" /\ mig[t].after_ok) =>
      /\ mig[t].ran = <<>>
      /\ store_migrations = mig[t].table0

C15_Witness ==
  \E t \in Tasks :
    /\ SetupDone(t) /\ mig[t].after_ok
    /\ Cardinality(store_migrations.rows) >= 2

\* C16: when a statement of setup fails, nothing more is recorded or executed:
\* the failing migration's index is not in store_migrations and the rows
\* recorded before stay
C16_FailureRecordsNothing ==
  [][\A t \in Tasks :
       (call[t].api = "setup" /\ pc[t] # "idle" /\ pc'[t] = "idle"
        /\ outcome'[t] # "ok") =>
         /\ store_migrations' = store_migrations
         /\ applied' = applied
         /\ mig'[t] = mig[t]
         /\ (pc[t] = "setup_loop" /\ Runnable(mig[t].v) < Len(MIGRATIONS))
              => Runnable(mig[t].v) \notin store_migrations'.rows]_vars

C16_Witness ==
  \E t \in Tasks :
    /\ call[t].api = "setup" /\ outcome[t] = "DatabaseError"
    /\ mig[t].table0.rows = {}
    /\ mig[t].ran # <<>>
    /\ Range(mig[t].ran) = store_migrations.rows
    /\ Runnable(mig[t].v) < Len(MIGRATIONS)

\* the ops of one kind in a batch, with their positions
GroupOf(opseq, kind) ==
  IF kind \in DOMAIN _group_ops(opseq).grouped
  THEN _group_ops(opseq).grouped[kind] ELSE <<>>

\* the group of the batch of t produces an embedding request
GroupRequests(t, kind) ==
  CASE kind = "SearchOp" -> SearchEmbeddingRequests(GroupOf(ops[t], kind)) # <<>>
    [] kind = "PutOp" ->
         GroupOf(ops[t], kind) # <<>>
         /\ _prepare_batch_PUT_queries(GroupOf(ops[t], kind)).embedding_request.stmt # "None"

\* no statement of the group is dispatched by the batch of t
NoneDispatched(t, kind) ==
  \A i \in 1..Len(log[t]) : log[t][i].group # kind

C18_PoolWithPipeRejected ==
  /\ (ctor.conn = "pool" /\ ctor.pipe
      /\ ctor.phase \notin {"none", "open", "bind", "check"}) =>
       /\ ctor.phase = "raised"
       /\ ctor.error = "ValueError"
       /\ ctor.attrs = {}
       /\ self = NoStore
  /\ ~(self.conn = "pool" /\ self.pipe)

C18_Witness ==
  /\ ctor.via = "__init__"
  /\ ctor.conn = "pool" /\ ctor.pipe
  /\ ctor.phase = "raised" /\ ctor.error = "ValueError"
  /\ ctor.attrs = {}

\* C19: every call of from_conn_string ends with a store instance: on a pool
\* without pipe when pool_config is given, else on a single connection with a
\* pipe exactly when pipeline is true, with the embedding configuration
\* passed, and without embedder when none was passed
C19_FromConnStringYieldsStore ==
  (ctor.via = "from_conn_string" /\ ctor.phase \in {"raised", "done"}) =>
    /\ ctor.phase = "done"
    /\ self.conn = (IF ctor.args[1].pool_config THEN "pool" ELSE "single")
    /\ self.pipe = (~ctor.args[1].pool_config /\ ctor.args[1].pipeline)
    /\ self.index_config = ctor.args[1].embedding
    /\ ctor.args[1].embedding.tag = "None" => self.embeddings = None

\* C20: a blocking batch(ops) that waits for its posted abatch(ops) returns,
\* whatever thread it was called from
C20_BlockingBatchReturns ==
  \A t \in Tasks :
    (blocking[t].state = "waiting") ~> (blocking[t].state = "done")

\* C21: an Item whose created_at and updated_at differ equals the Item made
\* of its dict()
C21_DictRoundTrip ==
  (built.phase = "rebuilt" /\ built.item.created_at # built.item.updated_at) =>
    Item__eq__(built.rebuilt, built.item)

\* the query texts of the Search ops of a batch that carry one, in op order
QueryTexts(opseq) ==
  [i \in 1..Len(SelectSeq(opseq, LAMBDA o : o.op = "SearchOp" /\ o.query # None)) |->
     SelectSeq(opseq, LAMBDA o : o.op = "SearchOp" /\ o.query # None)[i].query]

\* the positions in a sequence of steps of the steps with the statement stmt
StepsWith(steps, stmt) == {n \in 1..Len(steps) : steps[n].stmt = stmt}

\* the search op that the n-th SEARCH step of the search steps answers
SearchOpOf(t, step) == ops[t][step.idx]

\* C22: with an embedder, the Search group of a batch calls the embedder at
\* most once, before its first statement, with the query texts of the ops that
\* carry one in op order (not at all when none does); every statement of an op
\* with a query carries the vector of its own text, and no statement of the
\* group is dispatched before the call
C22_SearchEmbeddedOnce ==
  \A t \in Tasks :
    (call[t].api = "batch" /\ pc[t] = "run" /\ self.embeddings # None) =>
      \E steps \in {_batch_search_ops(GroupOf(ops[t], "SearchOp"))} :
        /\ Cardinality(StepsWith(steps, "EMBED_QUERY")) <= 1
        /\ (QueryTexts(ops[t]) = <<>>) <=> (StepsWith(steps, "EMBED_QUERY") = {})
        /\ \A n \in StepsWith(steps, "EMBED_QUERY") :
             /\ n = 1
             /\ RequestTexts(steps[n].q) = QueryTexts(ops[t])
        /\ \A n \in StepsWith(steps, "SEARCH") :
             steps[n].q.vector =
               IF SearchOpOf(t, steps[n]).query = None THEN None
               ELSE aembed_documents(<<SearchOpOf(t, steps[n]).query>>)[1]
        /\ \A i, j \in 1..Len(log[t]) :
             (log[t][i].stmt = "EMBED_QUERY" /\ log[t][j].group = "SearchOp"
              /\ log[t][j].stmt = "SEARCH") => i < j
        /\ Cardinality(StepsWith(log[t], "EMBED_QUERY")) <= 1

C22_Witness ==
  \E t \in Tasks :
    /\ call[t].api = "batch" /\ pc[t] = "run" /\ self.embeddings # None
    /\ Len(ops[t]) = 2
    /\ QueryTexts(ops[t]) = <<"v2", "v1">>
    /\ Len(log[t]) = 3
    /\ log[t][1].stmt = "EMBED_QUERY"
    /\ log[t][3].stmt = "SEARCH"

\* the put of a batch that decides (namespace, key): the last one on it
LastPutOn(opseq, prefix, key) ==
  opseq[SetMax({i \in 1..Len(opseq) :
                  /\ opseq[i].op = "PutOp"
                  /\ _namespace_to_text(opseq[i].namespace) = prefix
                  /\ opseq[i].key = key})]

\* the (prefix, key) pairs of a batch whose deciding put stores an indexed value
IndexedPuts(opseq) ==
  {<<_namespace_to_text(opseq[i].namespace), opseq[i].key>> :
     i \in {i \in 1..Len(opseq) :
              /\ opseq[i].op = "PutOp"
              /\ LastPutOn(opseq, _namespace_to_text(opseq[i].namespace),
                           opseq[i].key).value # None
              /\ LastPutOn(opseq, _namespace_to_text(opseq[i].namespace),
                           opseq[i].key).index.mode # "False"}}

\* C23: with an embedder, a Put group that produces an embedding request calls
\* the embedder exactly once, with the request's texts in request order; the
\* vector upsert is the last statement of the group, after every item insert
\* and delete, and pairs with each (namespace, key, path) the vector of the
\* text of that item at that path
C23_PutEmbeddedOnce ==
  \A t \in Tasks :
    (call[t].api = "batch" /\ pc[t] = "run" /\ self.embeddings # None
     /\ GroupRequests(t, "PutOp")) =>
      \E steps \in {_batch_put_ops(GroupOf(ops[t], "PutOp"))} :
        /\ StepsWith(steps, "EMBED") = {1}
        /\ StepsWith(steps, "UPSERT_VECTORS") = {Len(steps)}
        /\ \E up \in {steps[Len(steps)].q} :
             /\ Len(up.rows) = Len(steps[1].q.params)
             /\ {<<up.rows[i].prefix, up.rows[i].key>> : i \in 1..Len(up.rows)}
                  = IndexedPuts(ops[t])
             /\ \A i \in 1..Len(up.rows) :
                  /\ up.rows[i].prefix = steps[1].q.params[i].prefix
                  /\ up.rows[i].key = steps[1].q.params[i].key
                  /\ up.rows[i].field_name = steps[1].q.params[i].pathname
                  /\ up.rows[i].embedding =
                       aembed_documents(<<steps[1].q.params[i].text>>)[1]
                  /\ steps[1].q.params[i].text =
                       get_text_at_path(LastPutOn(ops[t], up.rows[i].prefix,
                                                  up.rows[i].key).value,
                                        up.rows[i].field_name)[1]
        /\ \A i, j \in 1..Len(log[t]) :
             (log[t][i].stmt \in {"EMBED", "INSERT", "DELETE"}
              /\ log[t][j].stmt = "UPSERT_VECTORS") => i < j
        /\ Cardinality(StepsWith(log[t], "EMBED")) <= 1
        /\ StepsWith(log[t], "UPSERT_VECTORS") # {} =>
             Cardinality(StepsWith(log[t], "EMBED")) = 1

C23_Witness ==
  \E t \in Tasks :
    /\ call[t].api = "batch" /\ pc[t] = "run" /\ self.embeddings # None
    /\ ops[t] = <<PutOp(<<La>>, "k1", "v2", IndexDefault),
                  PutOp(<<La>>, "k2", "v1", IndexDefault)>>
    /\ Len(log[t]) = 3
    /\ log[t][1].stmt = "EMBED"
    /\ log[t][2].stmt = "INSERT"
    /\ log[t][3].stmt = "UPSERT_VECTORS"
    /\ Cardinality(store_vectors) = 2

\* the batch of t is about to call the embedder for its Put group
AtPutEmbed(t) ==
  /\ call[t].api = "batch" /\ pc[t] = "run"
  /\ ip[t] < Len(Steps(t))
  /\ Steps(t)[ip[t] + 1].stmt = "EMBED"

\* C24: when the embedder call of the Put group of a batch does not succeed
\* (no embedder, or the call fails or is cancelled), no Put statement of the
\* batch has been dispatched, and the items and vector rows are as they were
\* before the batch
C24_NoPutBeforeEmbed ==
  [][\A t \in Tasks :
       (AtPutEmbed(t) /\ pc'[t] = "idle") =>
         /\ outcome'[t] \notin {"ok", "running", "none"}
         /\ NoneDispatched(t, "PutOp")
         /\ store' = pre[t]
         /\ store_vectors' = store_vectors]_vars

C24_Witness ==
  \E t \in Tasks :
    /\ call[t].api = "batch" /\ outcome[t] = "ValueError"
    /\ ops[t] = <<GetOp(<<La>>, "k1"), PutOp(<<La>>, "k1", "v2", IndexDefault)>>
    /\ self.embeddings = None
    /\ store # {} /\ store = pre[t]

\* C25: the lock is held only by a task inside a cursor scope; no task whose
\* call has ended, by a return or a failure at any point, holds it
C25_LockFreeAfterCall ==
  \A t \in Tasks :
    /\ lock = t => HasCursor(t)
    /\ pc[t] = "idle" => lock # t

C25_Witness ==
  \E t, u \in Tasks :
    /\ ~self.pipe
    /\ call[t].api = "batch" /\ pc[t] = "idle" /\ outcome[t] = "DatabaseError"
    /\ \E r \in store : r.value = "v2"
    /\ pc[u] = "run" /\ ip[u] = 0 /\ lock = u

Blocked(t) ==
  /\ call[t].api = "batch"
  /\ \/ pc[t] \in {"acquire", "cursor_conn"} /\ self.conn = "pool" /\ pool_free = 0
     \/ pc[t] = "cursor_lock" /\ lock \notin {None, t}

\* C27: on a pool-backed store whose database and embedder always answer, in
\* no state are all the batches under way waiting for a pool connection or
\* for the lock
C27_NotAllBlocked ==
  \/ \A t \in Tasks : pc[t] = "idle"
  \/ \E t \in Tasks : pc[t] # "idle" /\ ~Blocked(t)

\* C28: after a setup run that completed, every migration whose condition
\* holds for the store of that run has been executed, whatever setup runs
\* completed before it
C28_SkippedAppliedLater ==
  \A t \in Tasks :
    SetupDone(t) =>
      \A i \in 0..(Len(MIGRATIONS) - 1) :
        CondHolds(MIGRATIONS[i + 1]) => i \in Range(applied)

\* C29: under any interleaving of concurrent setup calls, no migration index
\* is executed twice
C29_MigrationsOnce ==
  \A i, j \in 1..Len(applied) : i # j => applied[i] # applied[j]

====
